---- MODULE Spec2Model ----
(***************************************************************************)
(* Model of the CSV structural-inference and statistics engine of          *)
(* rows_and_columns (csv_processor_module.rs) and of the analysis run that *)
(* drives it (rows_and_columns_module.rs::process_csv_file_from_command_   *)
(* line).                                                                  *)
(*                                                                         *)
(* Text is modelled as it is in the program: a line is a sequence of       *)
(* characters (one-character strings), a file is the sequence of lines     *)
(* that BufRead::lines() yields.  Splitting, trimming, lower-casing and    *)
(* number parsing are operators over character sequences.                  *)
(*                                                                         *)
(* f64 values are modelled as exact rationals (num/den, normalised) plus    *)
(* the three non-finite kinds +inf, -inf and NaN with the IEEE-754 rules   *)
(* the code's arithmetic and comparisons use.  The numbers of the model's  *)
(* vocabulary are dyadic (integers and halves), for which the code's f64   *)
(* sums, means and quartile interpolations are exact as well.              *)
(***************************************************************************)
EXTENDS Integers, Sequences, FiniteSets, TLC

VARIABLES
    file,                     \* contents of the source CSV file: Seq of lines
    pc,                       \* position of the analysis run in its caller
    has_header_row,           \* CsvAnalysisResults.has_header_row
    total_column_count,       \* CsvAnalysisResults.total_column_count
    total_data_row_count,     \* CsvAnalysisResults.total_data_row_count
    column_information_list,  \* CsvAnalysisResults.column_information_list
    metadata_file,            \* contents of <stem>.csv_metadata.toml, or NoFile
    enhanced,                 \* result of perform_enhanced_statistical_analysis
    run_error,                \* the error the run returned, or NoError
    stage_log,                \* stages entered by the current run, in order
    metadata_at_start,        \* metadata_file as the current run found it
    column_values,            \* input of the statistics functions (SpecStats)
    stats_result,             \* their result (SpecStats)
    input_line,               \* line given to parse_csv_line (SpecTokenizer)
    parsed_fields,            \* the fields it returned (SpecTokenizer)
    error_value,              \* error given to Display::fmt (SpecDisplay)
    displayed_text,           \* the text it wrote (SpecDisplay)
    row_index,                \* row asked of display_csv_row (SpecReaders)
    described,                \* result of describe_csv, in-memory crate
    described_micro,          \* result of describe_csv, streaming crate
    displayed_row,            \* result of display_csv_row, in-memory crate
    displayed_row_micro,      \* result of display_csv_row, streaming crate
    current_directory,        \* directory the file selection is browsing
    directory_items,          \* items listed by the last scan of it
    user_input,               \* the last line the user typed, trimmed
    selection                 \* what the file selection returned

vars == <<file, pc, has_header_row, total_column_count, total_data_row_count,
          column_information_list, metadata_file, enhanced, run_error,
          stage_log, metadata_at_start, column_values, stats_result,
          input_line, parsed_fields, error_value, displayed_text,
          row_index, described, described_micro, displayed_row,
          displayed_row_micro, current_directory, directory_items,
          user_input, selection>>

\* the variables of the specifications that do not run the analysis
display_vars == <<error_value, displayed_text>>

reader_vars == <<row_index, described, described_micro, displayed_row,
                 displayed_row_micro>>

selection_vars == <<current_directory, directory_items, user_input,
                    selection>>

later_vars == <<display_vars, reader_vars, selection_vars>>

----------------------------------------------------------------------------
(* Bounds *)

MaxLines == 3      \* longest file of the run specification, in lines
MaxValues == 3     \* longest value list given to the statistics functions
SampleFileLines == 11  \* longest file of the sampling specification
MaxExampleRows == 3    \* most rows under the header of an example file
MaxLineLen == 3        \* longest line given to the Line Tokenizer
MaxErrorLine == 12     \* largest line number carried by an error
MaxReaderLines == 3    \* longest file given to the two readers, in lines
MaxRowIndex == 3       \* largest row index asked of display_csv_row

----------------------------------------------------------------------------
(* Characters and strings *)

Digits == {"0", "1", "2", "3", "4", "5", "6", "7", "8", "9"}

DigitValue(c) ==
    CASE c = "0" -> 0 [] c = "1" -> 1 [] c = "2" -> 2 [] c = "3" -> 3
      [] c = "4" -> 4 [] c = "5" -> 5 [] c = "6" -> 6 [] c = "7" -> 7
      [] c = "8" -> 8 [] c = "9" -> 9

IsWhitespace(c) == c \in {" ", "\t", "\n", "\r"}

\* char::to_lowercase for the letters of the model's alphabet
LowerChar(c) ==
    CASE c = "T" -> "t" [] c = "F" -> "f" [] c = "Y" -> "y" [] c = "N" -> "n"
      [] c = "I" -> "i" [] c = "A" -> "a" [] c = "B" -> "b" [] c = "C" -> "c"
      [] c = "S" -> "s" [] c = "V" -> "v" [] c = "Q" -> "q"
      [] OTHER -> c

to_lowercase(s) == [i \in 1..Len(s) |-> LowerChar(s[i])]

RECURSIVE trim_start(_)
trim_start(s) ==
    IF s = <<>> THEN <<>>
    ELSE IF IsWhitespace(Head(s)) THEN trim_start(Tail(s)) ELSE s

RECURSIVE trim_end(_)
trim_end(s) ==
    IF s = <<>> THEN <<>>
    ELSE IF IsWhitespace(s[Len(s)]) THEN trim_end(SubSeq(s, 1, Len(s) - 1))
    ELSE s

\* str::trim
trim(s) == trim_end(trim_start(s))

\* str::split(','): always at least one piece; no quote awareness
RECURSIVE split_comma(_)
split_comma(s) ==
    IF \E i \in 1..Len(s) : s[i] = ","
    THEN LET i == CHOOSE k \in 1..Len(s) :
                      s[k] = "," /\ \A j \in 1..(k - 1) : s[j] # ","
         IN <<SubSeq(s, 1, i - 1)>> \o split_comma(SubSeq(s, i + 1, Len(s)))
    ELSE <<s>>

\* parse_csv_line with a quote character treated as any other character
RECURSIVE parse_csv_line_from_no_toggle(_, _, _, _, _)
parse_csv_line_from_no_toggle(line, i, fields, current_field, in_quotes) ==
    IF i > Len(line)
    THEN Append(fields, trim(current_field))
    ELSE IF line[i] = ","
         THEN parse_csv_line_from_no_toggle(line, i + 1,
                  Append(fields, trim(current_field)), <<>>, in_quotes)
         ELSE parse_csv_line_from_no_toggle(line, i + 1, fields,
                  Append(current_field, line[i]), in_quotes)

\* parse_csv_line from character position i on: fields holds the fields
\* pushed so far, current_field the buffer, in_quotes the toggle; a quote
\* character flips the toggle and is not kept, a comma outside quotes
\* pushes the trimmed buffer, every other character goes to the buffer
RECURSIVE parse_csv_line_from(_, _, _, _, _)
parse_csv_line_from(line, i, fields, current_field, in_quotes) ==
    IF i > Len(line)
    THEN Append(fields, trim(current_field))
    ELSE IF line[i] = "\""
         THEN parse_csv_line_from(line, i + 1, fields, current_field, ~in_quotes)
         ELSE IF line[i] = "," /\ ~in_quotes
              THEN parse_csv_line_from(line, i + 1,
                       Append(fields, trim(current_field)), <<>>, in_quotes)
              ELSE parse_csv_line_from(line, i + 1, fields,
                       Append(current_field, line[i]), in_quotes)

\* parse_csv_line with in_quotes initialised to true
parse_csv_line_starts_in_quotes(line) ==
    parse_csv_line_from(line, 1, <<>>, <<>>, TRUE)

\* parse_csv_line of rows_and_columns and rows_and_columns_micro (the two
\* crates hold the same function)
parse_csv_line(line) == parse_csv_line_from(line, 1, <<>>, <<>>, FALSE)

StripSign(s) ==
    IF s # <<>> /\ Head(s) \in {"+", "-"} THEN Tail(s) ELSE s

IsNegative(s) == s # <<>> /\ Head(s) = "-"

\* str::parse::<i64>().is_ok(): optional sign, then one or more digits.
\* (The range check of i64 cannot fail for the short fields of the model.)
ParsesI64(s) ==
    LET body == StripSign(s)
    IN body # <<>> /\ \A i \in 1..Len(body) : body[i] \in Digits

InfWords == { <<"i", "n", "f">>,
              <<"i", "n", "f", "i", "n", "i", "t", "y">> }
NanWord == <<"n", "a", "n">>

IsDecimal(body) ==
    /\ \E i \in 1..Len(body) : body[i] \in Digits
    /\ \A i \in 1..Len(body) : body[i] \in Digits \cup {"."}
    /\ Cardinality({i \in 1..Len(body) : body[i] = "."}) <= 1

\* str::parse::<f64>().is_ok(): optional sign, then "inf", "infinity" or
\* "nan" in any letter case, or a decimal number with at least one digit and
\* at most one point.  (The alphabet of the model has no exponent letter.)
ParsesF64(s) ==
    LET body == StripSign(s)
    IN \/ to_lowercase(body) \in InfWords
       \/ to_lowercase(body) = NanWord
       \/ IsDecimal(body)

----------------------------------------------------------------------------
(* Error kinds of RowsAndColumnsError that the engine produces *)

NoError == [kind |-> "none"]
FileSystemError == [kind |-> "FileSystemError"]

\* create_csv_processing_error(description, line_number, column_identifier);
\* an absent Option is "none"
create_csv_processing_error(line_number, column_identifier) ==
    [kind |-> "CsvProcessingError",
     csv_line_number |-> line_number,
     csv_column_identifier |-> column_identifier]

----------------------------------------------------------------------------
(* Structural Scanner *)

Min(a, b) == IF a < b THEN a ELSE b

count_csv_columns_in_line(csv_line) == Len(split_comma(csv_line))

count_numeric_fields(fields) ==
    Cardinality({i \in 1..Len(fields) :
                    ParsesI64(trim(fields[i])) \/ ParsesF64(trim(fields[i]))})

\* detect_csv_header_row with "<=" in place of "<"
detect_csv_header_row_le(remaining_lines, first_line) ==
    IF remaining_lines = <<>>
    THEN [likely_header |-> FALSE, remaining_lines |-> <<>>]
    ELSE [likely_header |->
              count_numeric_fields(split_comma(first_line))
                 <= count_numeric_fields(split_comma(Head(remaining_lines))),
          remaining_lines |-> Tail(remaining_lines)]

\* detect_csv_header_row takes the second line off the line iterator it is
\* given (remaining_lines.next()); the iterator it leaves behind is part of
\* its effect.
detect_csv_header_row(remaining_lines, first_line) ==
    IF remaining_lines = <<>>
    THEN [likely_header |-> FALSE, remaining_lines |-> <<>>]
    ELSE [likely_header |->
              count_numeric_fields(split_comma(first_line))
                 < count_numeric_fields(split_comma(Head(remaining_lines))),
          remaining_lines |-> Tail(remaining_lines)]

\* one count per line the iterator still yields, whatever the line holds
count_remaining_csv_lines(lines_iterator) == Len(lines_iterator)

\* analyze_csv_basic_structure that takes an empty file for a file of no
\* columns and no rows
analyze_csv_basic_structure_empty_ok(f) ==
    IF f = <<>>
    THEN [ok |-> TRUE, has_header_row |-> FALSE, column_count |-> 0,
          data_row_count |-> 0]
    ELSE LET first_line == Head(f)
             column_count == count_csv_columns_in_line(first_line)
             detected == detect_csv_header_row(Tail(f), first_line)
             total_rows == count_remaining_csv_lines(detected.remaining_lines)
         IN [ok |-> TRUE,
             has_header_row |-> detected.likely_header,
             column_count |-> column_count,
             data_row_count |-> IF detected.likely_header
                                THEN total_rows ELSE total_rows + 1]

\* analyze_csv_basic_structure on a file that opens and reads without an
\* I/O error
analyze_csv_basic_structure(f) ==
    IF f = <<>>
    THEN [ok |-> FALSE, error |-> create_csv_processing_error(1, "none")]
    ELSE LET first_line == Head(f)
             column_count == count_csv_columns_in_line(first_line)
             detected == detect_csv_header_row(Tail(f), first_line)
             total_rows == count_remaining_csv_lines(detected.remaining_lines)
         IN [ok |-> TRUE,
             has_header_row |-> detected.likely_header,
             column_count |-> column_count,
             data_row_count |-> IF detected.likely_header
                                THEN total_rows ELSE total_rows + 1]

----------------------------------------------------------------------------
(* Type Sampler *)

CSV_SAMPLE_ROWS_FOR_TYPE_DETECTION == 10
MAX_SAMPLE_VALUES == 5

\* the split done by the quote-aware tokenizer instead
parse_csv_line_into_fields_quote_aware(csv_line) == parse_csv_line(csv_line)

parse_csv_line_into_fields(csv_line) == split_comma(csv_line)

BooleanWords ==
    { <<"t", "r", "u", "e">>, <<"f", "a", "l", "s", "e">>,
      <<"y", "e", "s">>, <<"n", "o">>, <<"1">>, <<"0">>,
      <<"t">>, <<"f">>, <<"y">>, <<"n">> }

is_boolean_value(value) == value \in BooleanWords

\* the votes of detect_column_data_type: every sample votes for the first
\* of boolean, integer, float that accepts it, or for nothing
VoteOf(sample_value) ==
    LET trimmed_value == to_lowercase(trim(sample_value))
    IN IF is_boolean_value(trimmed_value) THEN "boolean"
       ELSE IF ParsesI64(trimmed_value) THEN "integer"
       ELSE IF ParsesF64(trimmed_value) THEN "float"
       ELSE "string"

VoteCount(sample_values, vote) ==
    Cardinality({i \in 1..Len(sample_values) : VoteOf(sample_values[i]) = vote})

\* the vote with the threshold rounded up instead of down
detect_column_data_type_ceiling(sample_values) ==
    IF sample_values = <<>> THEN "String"
    ELSE LET total_samples == Len(sample_values)
             threshold == (total_samples * 7 + 9) \div 10
         IN IF VoteCount(sample_values, "boolean") >= threshold THEN "Boolean"
            ELSE IF VoteCount(sample_values, "integer") >= threshold THEN "Integer"
            ELSE IF VoteCount(sample_values, "float") >= threshold THEN "Float"
            ELSE "String"

detect_column_data_type(sample_values) ==
    IF sample_values = <<>> THEN "String"
    ELSE LET total_samples == Len(sample_values)
             threshold == (total_samples * 7) \div 10
         IN IF VoteCount(sample_values, "boolean") >= threshold THEN "Boolean"
            ELSE IF VoteCount(sample_values, "integer") >= threshold THEN "Integer"
            ELSE IF VoteCount(sample_values, "float") >= threshold THEN "Float"
            ELSE "String"

RECURSIVE ToDecimal(_)
ToDecimal(n) ==
    LET d == CHOOSE c \in Digits : DigitValue(c) = n % 10
    IN IF n < 10 THEN <<d>> ELSE ToDecimal(n \div 10) \o <<d>>

\* format!("column_{}", index + 1)
GeneratedColumnName(column_index) ==
    <<"c", "o", "l", "u", "m", "n", "_">> \o ToDecimal(column_index + 1)

\* the lines a pass reads after it has skipped the header line
DataLines(f, has_header) ==
    IF has_header /\ f # <<>> THEN Tail(f) ELSE f

\* the trimmed values that the rows contribute to the 0-based column
\* column_index, in row order: a row contributes only if it has that field
RECURSIVE ColumnContributions(_, _)
ColumnContributions(rows, column_index) ==
    IF rows = <<>> THEN <<>>
    ELSE LET field_values == parse_csv_line_into_fields(Head(rows))
             rest == ColumnContributions(Tail(rows), column_index)
         IN IF column_index + 1 <= Len(field_values)
            THEN <<trim(field_values[column_index + 1])>> \o rest
            ELSE rest

NonEmpty(values) == SelectSeq(values, LAMBDA v : v # <<>>)

CountEmpty(values) == Len(values) - Len(NonEmpty(values))

\* The CsvColumnInformation that analyze_csv_column_types_and_content builds
\* for one column: the counters run over the first 10 lines after the
\* header, the retained samples are the first 5 non-empty values, and the
\* type is voted on the retained samples only.
ColumnInformation(f, has_header, column_index) ==
    LET sampled == SubSeq(DataLines(f, has_header), 1,
                      Min(CSV_SAMPLE_ROWS_FOR_TYPE_DETECTION,
                          Len(DataLines(f, has_header))))
        seen == ColumnContributions(sampled, column_index)
        sample_values == SubSeq(NonEmpty(seen), 1,
                            Min(MAX_SAMPLE_VALUES, Len(NonEmpty(seen))))
        column_names == IF has_header
                        THEN parse_csv_line_into_fields(Head(f))
                        ELSE <<>>
    IN [column_index |-> column_index,
        column_name |-> IF column_index + 1 <= Len(column_names)
                        THEN column_names[column_index + 1]
                        ELSE GeneratedColumnName(column_index),
        detected_data_type |-> detect_column_data_type(sample_values),
        non_empty_value_count |-> Len(NonEmpty(seen)),
        empty_value_count |-> CountEmpty(seen),
        sample_values |-> sample_values]

\* analyze_csv_column_types_and_content on a file that opens and reads
\* without an I/O error
analyze_csv_column_types_and_content(f, has_header, column_count) ==
    IF has_header /\ f = <<>>
    THEN [ok |-> FALSE, error |-> create_csv_processing_error(1, "none")]
    ELSE [ok |-> TRUE,
          column_info_list |->
              [c \in 1..column_count |-> ColumnInformation(f, has_header, c - 1)]]

----------------------------------------------------------------------------
(* Schema Recorder *)

NoFile == [exists |-> FALSE]

\* CsvColumnDataType::to_toml_string
to_toml_string(data_type) ==
    CASE data_type = "Boolean" -> "boolean"
      [] data_type = "Integer" -> "integer"
      [] data_type = "Float" -> "float"
      [] data_type = "String" -> "string"

\* the document with its sections keyed by the 0-based column index
MetadataContent_zero_based(column_info_list) ==
    [exists |-> TRUE,
     total_columns |-> Len(column_info_list),
     sections |->
        [i \in 1..Len(column_info_list) |->
            [section |-> column_info_list[i].column_index,
             name |-> column_info_list[i].column_name,
             data_type |-> to_toml_string(column_info_list[i].detected_data_type),
             column_index |-> column_info_list[i].column_index,
             non_empty_values |-> column_info_list[i].non_empty_value_count,
             empty_values |-> column_info_list[i].empty_value_count]]]

\* The text create_or_update_metadata_file builds: the total_columns line,
\* then one [column_<n>] section per list element, in list order.
MetadataContent(column_info_list) ==
    [exists |-> TRUE,
     total_columns |-> Len(column_info_list),
     sections |->
        [i \in 1..Len(column_info_list) |->
            [section |-> column_info_list[i].column_index + 1,
             name |-> column_info_list[i].column_name,
             data_type |-> to_toml_string(column_info_list[i].detected_data_type),
             column_index |-> column_info_list[i].column_index,
             non_empty_values |-> column_info_list[i].non_empty_value_count,
             empty_values |-> column_info_list[i].empty_value_count]]]

\* a writer that keeps the sections of the old document that the new list
\* does not replace (read-modify-merge)
WrittenFile_merge(old_file, column_info_list) ==
    LET fresh == MetadataContent(column_info_list)
    IN IF old_file.exists /\ old_file.total_columns > fresh.total_columns
       THEN [fresh EXCEPT !.sections =
                fresh.sections \o SubSeq(old_file.sections,
                                         fresh.total_columns + 1,
                                         old_file.total_columns)]
       ELSE fresh

\* std::fs::write(path, content): the file holds exactly the new content,
\* whatever it held before
WrittenFile(old_file, column_info_list) == MetadataContent(column_info_list)

\* what a failed std::fs::write can leave behind: the old file (the open
\* failed) or a created, truncated one (the write failed)
TruncatedFile == [exists |-> TRUE, total_columns |-> 0, sections |-> <<>>]

----------------------------------------------------------------------------
(* f64 *)

Abs(n) == IF n < 0 THEN -n ELSE n

RECURSIVE GCD(_, _)
GCD(a, b) == IF b = 0 THEN a ELSE GCD(b, a % b)

Fin(num, den) ==
    LET g == GCD(Abs(num), Abs(den))
        sgn == IF den < 0 THEN -1 ELSE 1
    IN [k |-> "fin", num |-> sgn * (num \div g), den |-> sgn * (den \div g)]

PInf == [k |-> "pinf", num |-> 0, den |-> 1]
NInf == [k |-> "ninf", num |-> 0, den |-> 1]
NaN == [k |-> "nan", num |-> 0, den |-> 1]

FNeg(a) ==
    CASE a.k = "fin" -> Fin(-a.num, a.den)
      [] a.k = "pinf" -> NInf
      [] a.k = "ninf" -> PInf
      [] OTHER -> NaN

FAdd(a, b) ==
    IF a.k = "nan" \/ b.k = "nan" THEN NaN
    ELSE IF a.k = "fin" /\ b.k = "fin"
         THEN Fin(a.num * b.den + b.num * a.den, a.den * b.den)
    ELSE IF a.k = "fin" THEN b
    ELSE IF b.k = "fin" THEN a
    ELSE IF a.k = b.k THEN a ELSE NaN

FSub(a, b) == FAdd(a, FNeg(b))

FSign(a) ==
    CASE a.k = "pinf" -> 1 [] a.k = "ninf" -> -1
      [] a.k = "fin" -> (IF a.num > 0 THEN 1 ELSE IF a.num < 0 THEN -1 ELSE 0)
      [] OTHER -> 0

FMul(a, b) ==
    IF a.k = "nan" \/ b.k = "nan" THEN NaN
    ELSE IF a.k = "fin" /\ b.k = "fin" THEN Fin(a.num * b.num, a.den * b.den)
    ELSE IF FSign(a) * FSign(b) = 0 THEN NaN
    ELSE IF FSign(a) * FSign(b) > 0 THEN PInf ELSE NInf

\* division by a positive count
FDivN(a, n) == IF a.k = "fin" THEN Fin(a.num, a.den * n) ELSE a

\* a <= b on f64: false whenever an operand is NaN
FLe(a, b) ==
    IF a.k = "nan" \/ b.k = "nan" THEN FALSE
    ELSE IF a.k = "ninf" \/ b.k = "pinf" THEN TRUE
    ELSE IF a.k = "pinf" \/ b.k = "ninf" THEN FALSE
    ELSE a.num * b.den <= b.num * a.den

FLt(a, b) == FLe(a, b) /\ a # b

RECURSIVE DigitsValue(_)
DigitsValue(ds) ==
    IF ds = <<>> THEN 0
    ELSE DigitsValue(SubSeq(ds, 1, Len(ds) - 1)) * 10 + DigitValue(ds[Len(ds)])

RECURSIVE Pow10(_)
Pow10(n) == IF n = 0 THEN 1 ELSE 10 * Pow10(n - 1)

\* the value of str::parse::<f64>() for a string that ParsesF64 accepts
F64Value(s) ==
    LET body == StripSign(s)
        sign == IF IsNegative(s) THEN -1 ELSE 1
        digits == SelectSeq(body, LAMBDA c : c \in Digits)
        point == IF \E i \in 1..Len(body) : body[i] = "."
                 THEN CHOOSE i \in 1..Len(body) : body[i] = "."
                 ELSE Len(body) + 1
    IN IF to_lowercase(body) \in InfWords
       THEN (IF sign = 1 THEN PInf ELSE NInf)
       ELSE IF to_lowercase(body) = NanWord THEN NaN
       ELSE Fin(sign * DigitsValue(digits),
                Pow10(IF point <= Len(body) THEN Len(body) - point ELSE 0))

----------------------------------------------------------------------------
(* Statistics Engine *)

\* collect_all_column_values: per column, the trimmed field of every line
\* after the header that has a field at that position
collect_all_column_values(f, has_header, column_count) ==
    [c \in 1..column_count |->
        ColumnContributions(DataLines(f, has_header), c - 1)]

\* the classification with Boolean columns taken as Continuous too
determine_field_type_boolean_continuous(detected_data_type) ==
    IF detected_data_type \in {"Integer", "Float", "Boolean"}
    THEN "Continuous" ELSE "Categorical"

determine_field_type(detected_data_type) ==
    IF detected_data_type \in {"Integer", "Float"}
    THEN "Continuous" ELSE "Categorical"

\* sort_by(partial_cmp): ascending; the order is total on NaN-free input
RECURSIVE InsertSorted(_, _)
InsertSorted(x, sorted) ==
    IF sorted = <<>> THEN <<x>>
    ELSE IF FLt(x, Head(sorted)) THEN <<x>> \o sorted
    ELSE <<Head(sorted)>> \o InsertSorted(x, Tail(sorted))

RECURSIVE SortAscending(_)
SortAscending(values) ==
    IF values = <<>> THEN <<>>
    ELSE InsertSorted(values[Len(values)],
                      SortAscending(SubSeq(values, 1, Len(values) - 1)))

\* the percentile without interpolation: the element at the floor index
calculate_percentile_floor(sorted_values, percentile) ==
    IF sorted_values = <<>> THEN Fin(0, 1)
    ELSE sorted_values[(percentile * (Len(sorted_values) - 1)) \div 100 + 1]

\* calculate_percentile: index = (percentile / 100) * (n - 1), held here in
\* hundredths; weight = index - floor(index)
calculate_percentile(sorted_values, percentile) ==
    IF sorted_values = <<>> THEN Fin(0, 1)
    ELSE LET index100 == percentile * (Len(sorted_values) - 1)
             lower_index == index100 \div 100
             upper_index == (index100 + 99) \div 100
             weight == Fin(index100 - 100 * lower_index, 100)
         IN IF lower_index = upper_index
            THEN sorted_values[lower_index + 1]
            ELSE FAdd(FMul(sorted_values[lower_index + 1],
                           FSub(Fin(1, 1), weight)),
                      FMul(sorted_values[upper_index + 1], weight))

RECURSIVE FSum(_)
FSum(values) ==
    IF values = <<>> THEN Fin(0, 1)
    ELSE FAdd(FSum(SubSeq(values, 1, Len(values) - 1)), values[Len(values)])

\* f64::sqrt where the root is rational; other positive arguments keep
\* their square as the description of the value
FSqrt(a) ==
    IF a.k = "fin" /\ a.num >= 0
    THEN IF \E r \in 0..a.num : r * r = a.num
            /\ \E q \in 1..a.den : q * q = a.den
         THEN Fin(CHOOSE r \in 0..a.num : r * r = a.num,
                  CHOOSE q \in 1..a.den : q * q = a.den)
         ELSE [k |-> "sqrt", num |-> a.num, den |-> a.den]
    ELSE IF a.k = "pinf" THEN PInf ELSE NaN

Percent(count, total) ==
    IF total > 0 THEN Fin(count * 100, total) ELSE Fin(0, 1)

\* the values of the column that parse as f64, in column order
ParsedValues(values) ==
    LET parseable == SelectSeq(values, LAMBDA v : trim(v) # <<>> /\ ParsesF64(trim(v)))
    IN [i \in 1..Len(parseable) |-> F64Value(trim(parseable[i]))]

calculate_numerical_statistics(values) ==
    LET unsorted == ParsedValues(values)
        empty_count == Len(values) - Len(unsorted)
        numerical_values == SortAscending(unsorted)
        n == Len(numerical_values)
        mean_value == FDivN(FSum(numerical_values), n)
        variance == FDivN(FSum([i \in 1..n |->
                              FMul(FSub(numerical_values[i], mean_value),
                                   FSub(numerical_values[i], mean_value))]), n)
    IN IF unsorted = <<>>
       THEN [ok |-> FALSE, error |-> create_csv_processing_error("none", "none")]
       ELSE [ok |-> TRUE,
             min_value |-> numerical_values[1],
             q1_value |-> calculate_percentile(numerical_values, 25),
             q2_median_value |-> calculate_percentile(numerical_values, 50),
             q3_value |-> calculate_percentile(numerical_values, 75),
             max_value |-> numerical_values[n],
             mean_value |-> mean_value,
             standard_deviation |-> FSqrt(variance),
             missing_percentage |-> Percent(empty_count, Len(values))]

\* number of occurrences of value among the trimmed values
CountOf(values, value) ==
    Cardinality({i \in 1..Len(values) : trim(values[i]) = value})

DistinctNonEmpty(values) ==
    {trim(values[i]) : i \in 1..Len(values)} \ {<<>>}

\* every order in which a HashMap with key set S can yield its keys
RECURSIVE KeyOrders(_)
KeyOrders(S) ==
    IF S = {} THEN {<<>>}
    ELSE UNION {{<<x>> \o p : p \in KeyOrders(S \ {x})} : x \in S}

\* an insertion that compares nothing: the list stays in iteration order
InsertByCount_append(x, sorted) == sorted \o <<x>>

\* slice::sort_by(|a, b| b.count.cmp(&a.count)): stable, count descending
RECURSIVE InsertByCount(_, _)
InsertByCount(x, sorted) ==
    IF sorted = <<>> THEN <<x>>
    ELSE IF x.count > sorted[Len(sorted)].count
         THEN InsertByCount(x, SubSeq(sorted, 1, Len(sorted) - 1))
                 \o <<sorted[Len(sorted)]>>
         ELSE sorted \o <<x>>

\* the sort with the comparison the other way round: count ascending
RECURSIVE SortByCountDescending_ascending(_)
SortByCountDescending_ascending(entries) ==
    IF entries = <<>> THEN <<>>
    ELSE LET x == entries[Len(entries)]
             rest == SortByCountDescending_ascending(
                         SubSeq(entries, 1, Len(entries) - 1))
         IN SelectSeq(rest, LAMBDA e : e.count <= x.count) \o <<x>>
               \o SelectSeq(rest, LAMBDA e : e.count > x.count)

RECURSIVE SortByCountDescending(_)
SortByCountDescending(entries) ==
    IF entries = <<>> THEN <<>>
    ELSE InsertByCount(entries[Len(entries)],
                       SortByCountDescending(SubSeq(entries, 1, Len(entries) - 1)))

\* the statistics with every percentage taken of the whole list
calculate_categorical_statistics_of_all(values, iteration_order) ==
    LET empty_count == CountOf(values, <<>>)
        value_frequencies ==
            SortByCountDescending(
                [i \in 1..Len(iteration_order) |->
                    [value |-> iteration_order[i],
                     count |-> CountOf(values, iteration_order[i]),
                     percentage |-> Percent(CountOf(values, iteration_order[i]),
                                            Len(values))]])
    IN [ok |-> TRUE,
        unique_value_count |-> Len(iteration_order),
        value_frequencies |-> value_frequencies,
        missing_percentage |-> Percent(empty_count, Len(values)),
        mode_value |-> IF value_frequencies # <<>>
                       THEN value_frequencies[1].value ELSE "none",
        mode_percentage |-> IF value_frequencies # <<>>
                            THEN value_frequencies[1].percentage ELSE Fin(0, 1)]

\* calculate_categorical_statistics; iteration_order is the order in which
\* the HashMap yields its keys, which the program does not control
calculate_categorical_statistics(values, iteration_order) ==
    LET empty_count == CountOf(values, <<>>)
        total_non_empty_values == Len(values) - empty_count
        value_frequencies ==
            SortByCountDescending(
                [i \in 1..Len(iteration_order) |->
                    [value |-> iteration_order[i],
                     count |-> CountOf(values, iteration_order[i]),
                     percentage |-> Percent(CountOf(values, iteration_order[i]),
                                            total_non_empty_values)]])
    IN [ok |-> TRUE,
        unique_value_count |-> Len(iteration_order),
        value_frequencies |-> value_frequencies,
        missing_percentage |-> Percent(empty_count, Len(values)),
        mode_value |-> IF value_frequencies # <<>>
                       THEN value_frequencies[1].value ELSE "none",
        mode_percentage |-> IF value_frequencies # <<>>
                            THEN value_frequencies[1].percentage ELSE Fin(0, 1)]

\* the statistics of one column, as perform_enhanced_statistical_analysis
\* selects them by field type
ColumnStatistics(basic_column_info, values, iteration_order) ==
    IF determine_field_type(basic_column_info.detected_data_type) = "Continuous"
    THEN calculate_numerical_statistics(values)
    ELSE calculate_categorical_statistics(values, iteration_order)

\* perform_enhanced_statistical_analysis on a file that opens and reads
\* without an I/O error: the error of the first column that fails, else one
\* record per column
perform_enhanced_statistical_analysis(f, has_header, column_count, column_info_list, iteration_orders) ==
    LET all_column_values == collect_all_column_values(f, has_header, column_count)
        per_column == [i \in 1..Len(column_info_list) |->
            ColumnStatistics(column_info_list[i],
                             all_column_values[column_info_list[i].column_index + 1],
                             iteration_orders[i])]
        failed == {i \in 1..Len(column_info_list) : ~per_column[i].ok}
    IN IF failed # {}
       THEN [ok |-> FALSE,
             error |-> per_column[CHOOSE i \in failed :
                                     \A j \in failed : i <= j].error]
       ELSE [ok |-> TRUE,
             columns |-> [i \in 1..Len(column_info_list) |->
                 [basic_info |-> column_info_list[i],
                  field_type |-> determine_field_type(
                                    column_info_list[i].detected_data_type),
                  statistics |-> per_column[i]]]]

----------------------------------------------------------------------------
(* Error display: impl Display for RowsAndColumnsError, the arm of          *)
(* CsvProcessingError                                                       *)

\* Option<T>
None == <<>>
Some(x) == <<x>>

\* RowsAndColumnsError::CsvProcessingError with its three fields
CsvProcessingError(description, line_number, column_identifier) ==
    [kind |-> "CsvProcessingError",
     csv_operation_description |-> description,
     csv_line_number |-> line_number,
     csv_column_identifier |-> column_identifier]

CsvFailedPrefix ==
    <<"C", "S", "V", " ", "p", "r", "o", "c", "e", "s", "s", "i", "n", "g",
      " ", "f", "a", "i", "l", "e", "d", ":", " ">>

AtLineWords ==
    <<" ", "a", "t", " ", "l", "i", "n", "e", " ">>

InColumnWords ==
    <<" ", "i", "n", " ", "c", "o", "l", "u", "m", "n", " ", "'">>

\* the arm that writes the line clause only when there is no column clause
fmt_line_or_column(error) ==
    LET column_info == IF error.csv_column_identifier # None
                       THEN InColumnWords \o error.csv_column_identifier[1] \o <<"'">>
                       ELSE <<>>
        line_info == IF error.csv_line_number # None /\ column_info = <<>>
                     THEN AtLineWords \o ToDecimal(error.csv_line_number[1])
                     ELSE <<>>
    IN CsvFailedPrefix \o error.csv_operation_description
          \o line_info \o column_info

\* write!(formatter, "CSV processing failed: {}{}{}", description,
\* line_info, column_info)
fmt(error) ==
    LET line_info == IF error.csv_line_number # None
                     THEN AtLineWords \o ToDecimal(error.csv_line_number[1])
                     ELSE <<>>
        column_info == IF error.csv_column_identifier # None
                       THEN InColumnWords \o error.csv_column_identifier[1] \o <<"'">>
                       ELSE <<>>
    IN CsvFailedPrefix \o error.csv_operation_description
          \o line_info \o column_info

----------------------------------------------------------------------------
(* The two readers: rows_and_columns loads the file (read_csv_file), and   *)
(* rows_and_columns_micro streams it (BufRead::read_line)                   *)

\* read_csv_file: the first line gives the headers, every later line a row
read_csv_file(f) ==
    [headers |-> IF f = <<>> THEN <<>> ELSE parse_csv_line(Head(f)),
     rows |-> IF f = <<>> THEN <<>>
              ELSE [i \in 1..(Len(f) - 1) |-> parse_csv_line(f[i + 1])]]

\* describe_csv of rows_and_columns: the counts it prints
describe_csv(f) ==
    [ok |-> TRUE,
     columns |-> Len(read_csv_file(f).headers),
     rows |-> Len(read_csv_file(f).rows)]

\* the decimal text of usize::MAX, what 0usize - 1 shows when it wraps
UsizeMaxText ==
    <<"1", "8", "4", "4", "6", "7", "4", "4", "0", "7", "3", "7", "0", "9",
      "5", "5", "1", "6", "1", "5">>

\* csv_data.rows.len() - 1 inside format!: with no rows the subtraction
\* overflows, which panics where overflow checks are on and wraps where
\* they are off
RowIndexError(row_count) ==
    IF row_count >= 1
    THEN {[ok |-> FALSE, kind |-> "InvalidInput", overflow |-> FALSE,
           max_text |-> ToDecimal(row_count - 1)]}
    ELSE {[ok |-> FALSE, kind |-> "panic", overflow |-> TRUE,
           max_text |-> <<>>],
          [ok |-> FALSE, kind |-> "InvalidInput", overflow |-> TRUE,
           max_text |-> UsizeMaxText]}

\* display_csv_row of rows_and_columns: the outcomes it can have
display_csv_row(f, index) ==
    LET csv_data == read_csv_file(f)
    IN IF index >= Len(csv_data.rows)
       THEN RowIndexError(Len(csv_data.rows))
       ELSE {[ok |-> TRUE, row_data |-> csv_data.rows[index + 1]]}

\* BufRead::read_line: the line with its terminator
read_line(line) == line \o <<"\n">>

\* describe_csv of rows_and_columns_micro
describe_csv_micro(f) ==
    IF f = <<>>
    THEN [ok |-> FALSE, kind |-> "InvalidData"]
    ELSE [ok |-> TRUE,
          columns |-> Len(parse_csv_line(read_line(Head(f)))),
          rows |-> Len(SelectSeq(Tail(f),
                                 LAMBDA l : trim(read_line(l)) # <<>>))]

\* the loop "while current_row < row_index" of display_csv_row: the lines
\* left when it ends, or the end of the file met
RECURSIVE SkipToRow(_, _, _)
SkipToRow(lines, current_row, index) ==
    IF current_row >= index THEN [eof |-> FALSE, rest |-> lines]
    ELSE IF lines = <<>> THEN [eof |-> TRUE, rest |-> <<>>]
    ELSE SkipToRow(Tail(lines),
                   IF trim(read_line(Head(lines))) # <<>>
                   THEN current_row + 1 ELSE current_row,
                   index)

\* the loop that looks for the next non-empty line; line_buffer still holds
\* what the read before the loop put there
RECURSIVE NextNonEmptyRow(_, _)
NextNonEmptyRow(line_buffer, lines) ==
    IF lines = <<>> THEN <<>>
    ELSE LET buffer == line_buffer \o read_line(Head(lines))
         IN IF trim(buffer) # <<>> THEN parse_csv_line(buffer)
            ELSE NextNonEmptyRow(<<>>, Tail(lines))

\* "Read the target row" of display_csv_row
TargetRow(lines) ==
    IF lines = <<>> THEN <<>>
    ELSE IF trim(read_line(Head(lines))) # <<>>
         THEN parse_csv_line(read_line(Head(lines)))
         ELSE NextNonEmptyRow(read_line(Head(lines)), Tail(lines))

\* display_csv_row of rows_and_columns_micro
display_csv_row_micro(f, index) ==
    IF f = <<>>
    THEN [ok |-> FALSE, kind |-> "InvalidData"]
    ELSE LET skipped == SkipToRow(Tail(f), 0, index)
         IN IF skipped.eof \/ TargetRow(skipped.rest) = <<>>
            THEN [ok |-> FALSE, kind |-> "InvalidInput"]
            ELSE [ok |-> TRUE, row_data |-> TargetRow(skipped.rest)]

----------------------------------------------------------------------------
(* The file selection of rows_columns_mini (file_system_bridge_module.rs). *)
(* A path is the sequence of the names below the root; a directory tree is *)
(* a set of entries [parent, item_name, is_directory, readable].           *)

\* Path::parent: None at the root
parent(path) ==
    IF path = <<>> THEN None ELSE Some(SubSeq(path, 1, Len(path) - 1))

\* str::ends_with
ends_with(s, suffix) ==
    /\ Len(s) >= Len(suffix)
    /\ SubSeq(s, Len(s) - Len(suffix) + 1, Len(s)) = suffix

\* the characters of the lower-cased item names, in byte order
CharOrder ==
    <<".", "a", "b", "c", "d", "e", "k", "l", "n", "o", "s", "t", "u", "v",
      "x">>

CharRank(c) == CHOOSE i \in 1..Len(CharOrder) : CharOrder[i] = c

\* str::cmp(a, b) = Less
RECURSIVE StrLess(_, _)
StrLess(a, b) ==
    IF b = <<>> THEN FALSE
    ELSE IF a = <<>> THEN TRUE
    ELSE IF Head(a) = Head(b) THEN StrLess(Tail(a), Tail(b))
    ELSE CharRank(Head(a)) < CharRank(Head(b))

\* str::parse::<usize>().is_ok(): an optional "+", then one or more digits
\* (the short inputs of the model cannot overflow)
ParsesUsize(s) ==
    LET digits == IF s # <<>> /\ Head(s) = "+" THEN Tail(s) ELSE s
    IN /\ digits # <<>>
       /\ \A i \in 1..Len(digits) : digits[i] \in Digits

UsizeValue(s) ==
    DigitsValue(IF s # <<>> /\ Head(s) = "+" THEN Tail(s) ELSE s)

\* the DirectoryItem built for one entry of fs::read_dir
DirectoryItem(entry) ==
    [item_name |-> entry.item_name,
     absolute_path |-> entry.parent \o <<entry.item_name>>,
     is_directory |-> entry.is_directory,
     appears_to_be_csv |->
         /\ ~entry.is_directory
         /\ \/ ends_with(to_lowercase(entry.item_name), <<".", "c", "s", "v">>)
            \/ ends_with(to_lowercase(entry.item_name), <<".", "t", "s", "v">>)]

\* the comparison given to sort_by: directories first, then CSV files, then
\* the other files, each group by lower-cased name
ItemLess(a, b) ==
    IF a.is_directory # b.is_directory THEN a.is_directory
    ELSE IF a.appears_to_be_csv # b.appears_to_be_csv THEN a.appears_to_be_csv
    ELSE StrLess(to_lowercase(a.item_name), to_lowercase(b.item_name))

RECURSIVE SortItems(_)
SortItems(items) ==
    IF items = {} THEN <<>>
    ELSE LET first == CHOOSE a \in items :
                          \A b \in items \ {a} : ItemLess(a, b)
         IN <<first>> \o SortItems(items \ {first})

\* scan_directory_for_navigation on a directory that fs::read_dir can read:
\* hidden items are skipped, the others sorted
scan_directory_for_navigation(tree, directory_path) ==
    SortItems({DirectoryItem(entry) :
                 entry \in {e \in tree : /\ e.parent = directory_path
                                         /\ Head(e.item_name) # "."}})

\* whether fs::read_dir succeeds on the path
CanReadDirectory(tree, directory_path) ==
    \/ directory_path = <<>>
    \/ \E e \in tree : /\ e.parent \o <<e.item_name>> = directory_path
                       /\ e.is_directory
                       /\ e.readable

\* create_csv_file_information
create_csv_file_information(directory_item) ==
    [absolute_file_path |-> directory_item.absolute_path,
     filename_only |-> directory_item.item_name]

ContinueBrowsing(directory) ==
    [action |-> "ContinueBrowsing", current_directory |-> directory]

\* process_user_file_selection_input returning every selected file, CSV or
\* not
process_user_file_selection_input_any_file(input, items, directory) ==
    IF input = <<>> THEN ContinueBrowsing(directory)
    ELSE IF input \in {<<"q">>, <<"q", "u", "i", "t">>}
    THEN [action |-> "QuitSelection", current_directory |-> directory]
    ELSE IF input \in {<<"b">>, <<"b", "a", "c", "k">>}
    THEN IF parent(directory) # None
         THEN ContinueBrowsing(parent(directory)[1])
         ELSE ContinueBrowsing(directory)
    ELSE IF /\ ParsesUsize(input)
            /\ UsizeValue(input) > 0
            /\ UsizeValue(input) <= Len(items)
    THEN LET selected_item == items[UsizeValue(input)]
         IN IF selected_item.is_directory
            THEN ContinueBrowsing(selected_item.absolute_path)
            ELSE [action |-> "FileSelected",
                  current_directory |-> directory,
                  csv_file_info |->
                      create_csv_file_information(selected_item)]
    ELSE ContinueBrowsing(directory)

\* process_user_file_selection_input: the action it returns and the
\* current directory it leaves
process_user_file_selection_input(input, items, directory) ==
    IF input = <<>> THEN ContinueBrowsing(directory)
    ELSE IF input \in {<<"q">>, <<"q", "u", "i", "t">>}
    THEN [action |-> "QuitSelection", current_directory |-> directory]
    ELSE IF input \in {<<"b">>, <<"b", "a", "c", "k">>}
    THEN IF parent(directory) # None
         THEN ContinueBrowsing(parent(directory)[1])
         ELSE ContinueBrowsing(directory)
    ELSE IF /\ ParsesUsize(input)
            /\ UsizeValue(input) > 0
            /\ UsizeValue(input) <= Len(items)
    THEN LET selected_item == items[UsizeValue(input)]
         IN IF selected_item.is_directory
            THEN ContinueBrowsing(selected_item.absolute_path)
            ELSE IF selected_item.appears_to_be_csv
            THEN [action |-> "FileSelected",
                  current_directory |-> directory,
                  csv_file_info |->
                      create_csv_file_information(selected_item)]
            ELSE ContinueBrowsing(directory)
    ELSE ContinueBrowsing(directory)

----------------------------------------------------------------------------
(* Inputs *)

\* the lines files are made of
LineSet ==
    { <<"a", ",", "b">>,          \* two text fields
      <<"7", ",", "x">>,          \* a number and a text field
      <<"x">>,                    \* one field: a short row
      <<>> }                      \* a blank line

RECURSIVE SeqsUpTo(_, _)
SeqsUpTo(S, n) ==
    IF n = 0 THEN {<<>>}
    ELSE LET shorter == SeqsUpTo(S, n - 1)
         IN shorter \cup {Append(q, x) : q \in {r \in shorter : Len(r) = n - 1}, x \in S}

Files == SeqsUpTo(LineSet, MaxLines)

\* single-column lines of the sampling specification
SampleLineSet == { <<"1", "2">>, <<"a", "b">> }

SampleFiles ==
    {f \in SeqsUpTo(SampleLineSet, SampleFileLines) :
        Len(f) >= CSV_SAMPLE_ROWS_FOR_TYPE_DETECTION}

\* the values a column can hold in the statistics specification
ValueSet ==
    { <<>>, <<"3", "0">>, <<"2", "5">>, <<"2", ".", "5">>, <<"a", "b">>,
      <<"i", "n", "f">>, <<"-", "i", "n", "f">>, <<" ">>,
      <<"1">>, <<"T">>, <<"n", "o">> }

ValueLists == SeqsUpTo(ValueSet, MaxValues)

\* the characters of the lines given to the Line Tokenizer
LineChars == {"a", ",", "\"", " "}

TokenizerLines == SeqsUpTo(LineChars, MaxLineLen)

\* the lines of the files given to the two readers
ReaderLineSet == { <<"a", ",", "b">>, <<"c">>, <<>>, <<" ">> }

ReaderFiles == SeqsUpTo(ReaderLineSet, MaxReaderLines)

\* the directory tree the file selection browses: at the root three
\* directories (one of them unreadable), two CSV files, a text file and a
\* hidden file; below "data" a directory named like a CSV file, a TSV file
\* and a file named "csv"; below "old" a CSV file and a directory that holds
\* a CSV file and an empty directory
DirectoryTree ==
    { [parent |-> <<>>, item_name |-> <<"d", "a", "t", "a">>,
       is_directory |-> TRUE, readable |-> TRUE],
      [parent |-> <<>>, item_name |-> <<"l", "o", "c", "k">>,
       is_directory |-> TRUE, readable |-> FALSE],
      [parent |-> <<>>, item_name |-> <<"a", ".", "c", "s", "v">>,
       is_directory |-> FALSE, readable |-> TRUE],
      [parent |-> <<>>, item_name |-> <<"B", ".", "T", "S", "V">>,
       is_directory |-> FALSE, readable |-> TRUE],
      [parent |-> <<>>, item_name |-> <<"n", ".", "t", "x", "t">>,
       is_directory |-> FALSE, readable |-> TRUE],
      [parent |-> <<>>, item_name |-> <<".", "x", ".", "c", "s", "v">>,
       is_directory |-> FALSE, readable |-> TRUE],
      [parent |-> <<<<"d", "a", "t", "a">>>>,
       item_name |-> <<"d", ".", "c", "s", "v">>,
       is_directory |-> TRUE, readable |-> TRUE],
      [parent |-> <<<<"d", "a", "t", "a">>>>,
       item_name |-> <<"t", ".", "t", "s", "v">>,
       is_directory |-> FALSE, readable |-> TRUE],
      [parent |-> <<<<"d", "a", "t", "a">>>>,
       item_name |-> <<"c", "s", "v">>,
       is_directory |-> FALSE, readable |-> TRUE],
      [parent |-> <<>>, item_name |-> <<"o", "l", "d">>,
       is_directory |-> TRUE, readable |-> TRUE],
      [parent |-> <<<<"o", "l", "d">>>>,
       item_name |-> <<"C", ".", "C", "S", "V">>,
       is_directory |-> FALSE, readable |-> TRUE],
      [parent |-> <<<<"o", "l", "d">>>>,
       item_name |-> <<"s", "u", "b">>,
       is_directory |-> TRUE, readable |-> TRUE],
      [parent |-> <<<<"o", "l", "d">>, <<"s", "u", "b">>>>,
       item_name |-> <<"s", ".", "c", "s", "v">>,
       is_directory |-> FALSE, readable |-> TRUE],
      [parent |-> <<<<"o", "l", "d">>, <<"s", "u", "b">>>>,
       item_name |-> <<"e">>,
       is_directory |-> TRUE, readable |-> TRUE] }

\* the directories of the tree, the starting directories of the selection
Directories ==
    {<<>>} \cup {e.parent \o <<e.item_name>> :
                   e \in {d \in DirectoryTree : d.is_directory}}

\* the lines the user types, as read_line returns them
UserInputs ==
    { <<"\n">>, <<"q", "\n">>, <<"q", "u", "i", "t", "\n">>,
      <<" ", "q", " ", "\n">>, <<"Q", "\n">>,
      <<"b", "\n">>, <<"b", "a", "c", "k", "\n">>,
      <<"0", "\n">>, <<"1", "\n">>, <<"2", "\n">>, <<"3", "\n">>,
      <<"4", "\n">>, <<"5", "\n">>, <<"6", "\n">>, <<"+", "2", "\n">>,
      <<"0", "3", "\n">>, <<"-", "1", "\n">>, <<"x", "\n">>,
      <<"a", ".", "c", "s", "v", "\n">> }

\* the descriptions the program gives its CSV processing errors, and the
\* one of the display test
ErrorDescriptions ==
    {
      <<"C", "S", "V", " ", "f", "i", "l", "e", " ", "a", "p", "p", "e",
        "a", "r", "s", " ", "t", "o", " ", "b", "e", " ", "e", "m", "p",
        "t", "y">>,
      <<"C", "S", "V", " ", "f", "i", "l", "e", " ", "a", "p", "p", "e",
        "a", "r", "s", " ", "e", "m", "p", "t", "y", " ", "w", "h", "e",
        "n", " ", "t", "r", "y", "i", "n", "g", " ", "t", "o", " ", "r",
        "e", "a", "d", " ", "h", "e", "a", "d", "e", "r">>,
      <<"N", "o", " ", "v", "a", "l", "i", "d", " ", "n", "u", "m", "e",
        "r", "i", "c", "a", "l", " ", "v", "a", "l", "u", "e", "s", " ",
        "f", "o", "u", "n", "d", " ", "f", "o", "r", " ", "s", "t", "a",
        "t", "i", "s", "t", "i", "c", "a", "l", " ", "a", "n", "a", "l",
        "y", "s", "i", "s">>,
      <<"I", "n", "v", "a", "l", "i", "d", " ", "c", "o", "l", "u", "m",
        "n", " ", "c", "o", "u", "n", "t">> }

\* column identifiers: a name and a position
ColumnIdentifiers ==
    {
      <<"c", "u", "s", "t", "o", "m", "e", "r", "_", "n", "a", "m", "e">>,
      <<"2">> }

ErrorValues ==
    {CsvProcessingError(description, line_number, column_identifier) :
        description \in ErrorDescriptions,
        line_number \in {None} \cup {Some(n) : n \in 1..MaxErrorLine},
        column_identifier \in {None} \cup {Some(id) : id \in ColumnIdentifiers}}

\* the three-column example: a header line and the rows put under it
ExampleHeader ==
    <<"n", "a", "m", "e", ",", "a", "g", "e", ",", "a", "c", "t", "i", "v", "e">>

ExampleRows ==
    << <<"A", "l", "i", "c", "e", ",", "3", "0", ",", "t", "r", "u", "e">>,
       <<"B", "o", "b", ",", "2", "5", ",", "f", "a", "l", "s", "e">>,
       <<"C", "a", "r", "o", "l", ",", ",", "t", "r", "u", "e">> >>

ExampleFile == <<ExampleHeader>> \o ExampleRows

\* a row whose second field is quoted and holds a comma: a,"x,y",b
QuotedRow == <<"a", ",", "\"", "x", ",", "y", "\"", ",", "b">>

ExampleRowSet == {ExampleRows[i] : i \in 1..Len(ExampleRows)}

\* the files of the example specification: the header over example rows,
\* and files that hold the quoted row
ExampleFiles ==
    {<<ExampleHeader>> \o rows : rows \in SeqsUpTo(ExampleRowSet, MaxExampleRows)}
        \cup {<<QuotedRow>>,
              <<ExampleHeader, QuotedRow>>,
              <<ExampleHeader, ExampleRows[1], QuotedRow>>}

----------------------------------------------------------------------------
(* The analysis run: process_csv_file_from_command_line calling            *)
(* analyze_csv_file_structure_and_types and then                           *)
(* perform_enhanced_statistical_analysis; every call is followed by "?".   *)

NoResult == [ok |-> FALSE]

\* nothing has been displayed
DisplayIdle ==
    /\ error_value = NoError
    /\ displayed_text = <<>>

\* a reader function that has not been called
NotCalled == [ok |-> FALSE, kind |-> "not called"]

ReadersIdle ==
    /\ row_index = 0
    /\ described = NotCalled
    /\ described_micro = NotCalled
    /\ displayed_row = NotCalled
    /\ displayed_row_micro = NotCalled

\* the file selection not started
NotStarted == [kind |-> "not started"]

SelectionIdle ==
    /\ current_directory = <<>>
    /\ directory_items = <<>>
    /\ user_input = <<>>
    /\ selection = NotStarted

LaterIdle == DisplayIdle /\ ReadersIdle /\ SelectionIdle

InitRun(f) ==
    /\ file = f
    /\ pc = "idle"
    /\ has_header_row = FALSE
    /\ total_column_count = 0
    /\ total_data_row_count = 0
    /\ column_information_list = <<>>
    /\ metadata_file = NoFile
    /\ metadata_at_start = NoFile
    /\ enhanced = NoResult
    /\ run_error = NoError
    /\ stage_log = <<>>
    /\ column_values = <<>>
    /\ stats_result = NoResult
    /\ input_line = <<>>
    /\ parsed_fields = <<>>
    /\ LaterIdle

Init == \E f \in Files : InitRun(f)

InitSampling == \E f \in SampleFiles : InitRun(f)

\* the run with the statistics pass called before the metadata file is written
RunStages_statistics_first == <<"structure", "types", "statistics", "metadata">>

\* The stages of a run in the order of the calls: Steps 1, 2 and 4 of
\* analyze_csv_file_structure_and_types, then Step 4 of
\* process_csv_file_from_command_line.
RunStages == <<"structure", "types", "metadata", "statistics">>

\* the stage whose call the run has reached
AtStage(stage) ==
    /\ pc = "running"
    /\ Len(stage_log) < Len(RunStages)
    /\ RunStages[Len(stage_log) + 1] = stage

\* a stage returned Ok: the caller goes on to its next call
Succeed(stage) ==
    /\ stage_log' = Append(stage_log, stage)
    /\ pc' = IF Len(stage_log) + 1 = Len(RunStages) THEN "done" ELSE "running"
    /\ UNCHANGED run_error

\* a failure that the caller swallows and carries on from
Fail_continue(stage, error) ==
    /\ pc' = IF Len(stage_log) + 1 = Len(RunStages) THEN "done" ELSE "running"
    /\ run_error' = error
    /\ stage_log' = Append(stage_log, stage)

\* a stage returned Err: "?" returns that error from the run at once
Fail(stage, error) ==
    /\ pc' = "failed"
    /\ run_error' = error
    /\ stage_log' = Append(stage_log, stage)

\* the run is entered: nothing of an earlier run is in memory
StartRun ==
    /\ pc = "idle"
    /\ pc' = "running"
    /\ metadata_at_start' = metadata_file
    /\ UNCHANGED <<file, has_header_row, total_column_count,
                   total_data_row_count, column_information_list,
                   metadata_file, enhanced, run_error, stage_log,
                   column_values, stats_result,
                   input_line, parsed_fields, later_vars>>

\* analyze_csv_basic_structure, called by the run
AnalyzeBasicStructure ==
    /\ AtStage("structure")
    /\ \/ /\ Fail("structure", FileSystemError)
          /\ UNCHANGED <<has_header_row, total_column_count, total_data_row_count>>
       \/ LET r == analyze_csv_basic_structure(file)
          IN IF r.ok
             THEN /\ has_header_row' = r.has_header_row
                  /\ total_column_count' = r.column_count
                  /\ total_data_row_count' = r.data_row_count
                  /\ Succeed("structure")
             ELSE /\ Fail("structure", r.error)
                  /\ UNCHANGED <<has_header_row, total_column_count,
                                 total_data_row_count>>
    /\ UNCHANGED <<file, column_information_list, metadata_file,
                   metadata_at_start, enhanced, column_values, stats_result,
                   input_line, parsed_fields, later_vars>>

\* analyze_csv_column_types_and_content, called by the run
AnalyzeColumnTypes ==
    /\ AtStage("types")
    /\ \/ /\ Fail("types", FileSystemError)
          /\ UNCHANGED column_information_list
       \/ LET r == analyze_csv_column_types_and_content(
                       file, has_header_row, total_column_count)
          IN IF r.ok
             THEN /\ column_information_list' = r.column_info_list
                  /\ Succeed("types")
             ELSE /\ Fail("types", r.error)
                  /\ UNCHANGED column_information_list
    /\ UNCHANGED <<file, has_header_row, total_column_count,
                   total_data_row_count, metadata_file, metadata_at_start,
                   enhanced, column_values, stats_result,
                   input_line, parsed_fields, later_vars>>

\* determine_metadata_file_path and create_or_update_metadata_file, called
\* by the run; the path is derived from a validated file path, which has a
\* stem and a parent
CreateOrUpdateMetadataFile ==
    /\ AtStage("metadata")
    /\ \/ /\ Fail("metadata", FileSystemError)
          /\ metadata_file' \in {metadata_file, TruncatedFile}
       \/ /\ metadata_file' = WrittenFile(metadata_file, column_information_list)
          /\ Succeed("metadata")
    /\ UNCHANGED <<file, has_header_row, total_column_count,
                   total_data_row_count, column_information_list,
                   metadata_at_start, enhanced, column_values, stats_result,
                   input_line, parsed_fields, later_vars>>

\* perform_enhanced_statistical_analysis, called by the run
PerformEnhancedStatisticalAnalysis ==
    /\ AtStage("statistics")
    /\ \/ /\ Fail("statistics", FileSystemError)
          /\ UNCHANGED enhanced
       \/ LET all_column_values == collect_all_column_values(
                                       file, has_header_row, total_column_count)
          IN \E iteration_orders \in
                   [1..total_column_count ->
                       UNION {KeyOrders(DistinctNonEmpty(all_column_values[c])) :
                                 c \in 1..total_column_count}] :
                /\ \A c \in 1..total_column_count :
                      iteration_orders[c] \in
                          KeyOrders(DistinctNonEmpty(all_column_values[c]))
                /\ LET r == perform_enhanced_statistical_analysis(
                                file, has_header_row, total_column_count,
                                column_information_list, iteration_orders)
                   IN IF r.ok
                      THEN /\ enhanced' = r
                           /\ Succeed("statistics")
                      ELSE /\ Fail("statistics", r.error)
                           /\ UNCHANGED enhanced
    /\ UNCHANGED <<file, has_header_row, total_column_count,
                   total_data_row_count, column_information_list,
                   metadata_file, metadata_at_start, column_values, stats_result,
                   input_line, parsed_fields, later_vars>>

\* Between two runs the process has exited and the source file may be
\* edited, a line at a time (a line appended or the last line removed);
\* the metadata file stays on disk.
EditSource ==
    /\ pc \in {"idle", "done", "failed"}
    /\ \/ \E line \in LineSet :
             /\ Len(file) < MaxLines
             /\ file' = Append(file, line)
       \/ /\ file # <<>>
          /\ file' = SubSeq(file, 1, Len(file) - 1)
    /\ pc' = "idle"
    /\ has_header_row' = FALSE
    /\ total_column_count' = 0
    /\ total_data_row_count' = 0
    /\ column_information_list' = <<>>
    /\ enhanced' = NoResult
    /\ run_error' = NoError
    /\ stage_log' = <<>>
    /\ metadata_at_start' = metadata_file
    /\ UNCHANGED <<metadata_file, column_values, stats_result,
                   input_line, parsed_fields, later_vars>>

Next ==
    \/ StartRun
    \/ AnalyzeBasicStructure
    \/ AnalyzeColumnTypes
    \/ CreateOrUpdateMetadataFile
    \/ PerformEnhancedStatisticalAnalysis
    \/ EditSource

Spec == Init /\ [][Next]_vars

NextSampling ==
    \/ StartRun
    \/ AnalyzeBasicStructure
    \/ AnalyzeColumnTypes
    \/ CreateOrUpdateMetadataFile
    \/ PerformEnhancedStatisticalAnalysis

SpecSampling == InitSampling /\ [][NextSampling]_vars

\* runs on the example files
InitExample == \E f \in ExampleFiles : InitRun(f)

SpecExample == InitExample /\ [][NextSampling]_vars

----------------------------------------------------------------------------
(* The statistics functions applied to a list of column values *)

InitStats ==
    /\ column_values \in ValueLists
    /\ stats_result = NoResult
    /\ pc = "stats_idle"
    /\ file = <<>>
    /\ has_header_row = FALSE
    /\ total_column_count = 0
    /\ total_data_row_count = 0
    /\ column_information_list = <<>>
    /\ metadata_file = NoFile
    /\ metadata_at_start = NoFile
    /\ enhanced = NoResult
    /\ run_error = NoError
    /\ stage_log = <<>>
    /\ input_line = <<>>
    /\ parsed_fields = <<>>
    /\ LaterIdle

CalculateNumericalStatistics ==
    /\ pc = "stats_idle"
    /\ stats_result' = calculate_numerical_statistics(column_values)
    /\ pc' = "numerical_done"
    /\ UNCHANGED <<file, has_header_row, total_column_count,
                   total_data_row_count, column_information_list,
                   metadata_file, metadata_at_start, enhanced, run_error,
                   stage_log, column_values,
                   input_line, parsed_fields, later_vars>>

CalculateCategoricalStatistics ==
    /\ pc = "stats_idle"
    /\ \E iteration_order \in KeyOrders(DistinctNonEmpty(column_values)) :
          stats_result' = calculate_categorical_statistics(column_values,
                                                           iteration_order)
    /\ pc' = "categorical_done"
    /\ UNCHANGED <<file, has_header_row, total_column_count,
                   total_data_row_count, column_information_list,
                   metadata_file, metadata_at_start, enhanced, run_error,
                   stage_log, column_values,
                   input_line, parsed_fields, later_vars>>

\* detect_column_data_type applied to the values as retained samples
DetectColumnDataType ==
    /\ pc = "stats_idle"
    /\ stats_result' = [ok |-> TRUE,
                        detected_data_type |-> detect_column_data_type(column_values)]
    /\ pc' = "type_detected"
    /\ UNCHANGED <<file, has_header_row, total_column_count,
                   total_data_row_count, column_information_list,
                   metadata_file, metadata_at_start, enhanced, run_error,
                   stage_log, column_values,
                   input_line, parsed_fields, later_vars>>

NextStats ==
    \/ CalculateNumericalStatistics
    \/ CalculateCategoricalStatistics
    \/ DetectColumnDataType

SpecStats == InitStats /\ [][NextStats]_vars

----------------------------------------------------------------------------
(* The Line Tokenizer applied to a line *)

InitTokenizer ==
    /\ input_line \in TokenizerLines
    /\ parsed_fields = <<>>
    /\ LaterIdle
    /\ pc = "tokenizer_idle"
    /\ file = <<>>
    /\ has_header_row = FALSE
    /\ total_column_count = 0
    /\ total_data_row_count = 0
    /\ column_information_list = <<>>
    /\ metadata_file = NoFile
    /\ metadata_at_start = NoFile
    /\ enhanced = NoResult
    /\ run_error = NoError
    /\ stage_log = <<>>
    /\ column_values = <<>>
    /\ stats_result = NoResult

ParseCsvLine ==
    /\ pc = "tokenizer_idle"
    /\ parsed_fields' = parse_csv_line(input_line)
    /\ pc' = "tokenized"
    /\ UNCHANGED <<file, has_header_row, total_column_count,
                   total_data_row_count, column_information_list,
                   metadata_file, metadata_at_start, enhanced, run_error,
                   stage_log, column_values, stats_result, input_line,
                   later_vars>>

NextTokenizer == ParseCsvLine

SpecTokenizer == InitTokenizer /\ [][NextTokenizer]_vars

----------------------------------------------------------------------------
(* The display of a CSV processing error *)

\* the state in which no analysis, statistics or tokenizer call is going on
AnalysisIdle ==
    /\ file = <<>>
    /\ has_header_row = FALSE
    /\ total_column_count = 0
    /\ total_data_row_count = 0
    /\ column_information_list = <<>>
    /\ metadata_file = NoFile
    /\ metadata_at_start = NoFile
    /\ enhanced = NoResult
    /\ run_error = NoError
    /\ stage_log = <<>>
    /\ column_values = <<>>
    /\ stats_result = NoResult
    /\ input_line = <<>>
    /\ parsed_fields = <<>>

analysis_vars ==
    <<file, has_header_row, total_column_count, total_data_row_count,
      column_information_list, metadata_file, metadata_at_start, enhanced,
      run_error, stage_log, column_values, stats_result, input_line,
      parsed_fields>>

InitDisplay ==
    /\ error_value \in ErrorValues
    /\ displayed_text = <<>>
    /\ pc = "display_idle"
    /\ AnalysisIdle
    /\ ReadersIdle
    /\ SelectionIdle

DisplayError ==
    /\ pc = "display_idle"
    /\ displayed_text' = fmt(error_value)
    /\ pc' = "displayed"
    /\ UNCHANGED <<analysis_vars, error_value, reader_vars, selection_vars>>

NextDisplay == DisplayError

SpecDisplay == InitDisplay /\ [][NextDisplay]_vars

----------------------------------------------------------------------------
(* The two readers called on a file *)

reader_idle_vars ==
    <<has_header_row, total_column_count, total_data_row_count,
      column_information_list, metadata_file, metadata_at_start, enhanced,
      run_error, stage_log, column_values, stats_result, input_line,
      parsed_fields, display_vars, selection_vars>>

InitReaders ==
    /\ file \in ReaderFiles
    /\ row_index \in 0..MaxRowIndex
    /\ described = NotCalled
    /\ described_micro = NotCalled
    /\ displayed_row = NotCalled
    /\ displayed_row_micro = NotCalled
    /\ pc = "readers"
    /\ has_header_row = FALSE
    /\ total_column_count = 0
    /\ total_data_row_count = 0
    /\ column_information_list = <<>>
    /\ metadata_file = NoFile
    /\ metadata_at_start = NoFile
    /\ enhanced = NoResult
    /\ run_error = NoError
    /\ stage_log = <<>>
    /\ column_values = <<>>
    /\ stats_result = NoResult
    /\ input_line = <<>>
    /\ parsed_fields = <<>>
    /\ DisplayIdle
    /\ SelectionIdle

DescribeCsv ==
    /\ pc = "readers"
    /\ described = NotCalled
    /\ described' = describe_csv(file)
    /\ UNCHANGED <<file, pc, reader_idle_vars, row_index, described_micro,
                   displayed_row, displayed_row_micro>>

DescribeCsvMicro ==
    /\ pc = "readers"
    /\ described_micro = NotCalled
    /\ described_micro' = describe_csv_micro(file)
    /\ UNCHANGED <<file, pc, reader_idle_vars, row_index, described,
                   displayed_row, displayed_row_micro>>

DisplayCsvRow ==
    /\ pc = "readers"
    /\ displayed_row = NotCalled
    /\ displayed_row' \in display_csv_row(file, row_index)
    /\ UNCHANGED <<file, pc, reader_idle_vars, row_index, described,
                   described_micro, displayed_row_micro>>

DisplayCsvRowMicro ==
    /\ pc = "readers"
    /\ displayed_row_micro = NotCalled
    /\ displayed_row_micro' = display_csv_row_micro(file, row_index)
    /\ UNCHANGED <<file, pc, reader_idle_vars, row_index, described,
                   described_micro, displayed_row>>

NextReaders ==
    \/ DescribeCsv
    \/ DescribeCsvMicro
    \/ DisplayCsvRow
    \/ DisplayCsvRowMicro

SpecReaders == InitReaders /\ [][NextReaders]_vars

----------------------------------------------------------------------------
(* The file selection loop *)

InitSelection ==
    /\ current_directory \in Directories
    /\ directory_items = <<>>
    /\ user_input = <<>>
    /\ selection = NotStarted
    /\ pc = "browsing"
    /\ AnalysisIdle
    /\ DisplayIdle
    /\ ReadersIdle

\* one turn of the loop of interactive_directory_and_file_selection: scan,
\* read a line, trim it, process it
BrowseStep(line) ==
    /\ pc = "browsing"
    /\ IF ~CanReadDirectory(DirectoryTree, current_directory)
       THEN /\ selection' = [kind |-> "error"]
            /\ pc' = "returned"
            /\ UNCHANGED <<current_directory, directory_items, user_input>>
       ELSE LET items == scan_directory_for_navigation(DirectoryTree,
                                                       current_directory)
                result == process_user_file_selection_input(
                              trim(line), items, current_directory)
            IN /\ directory_items' = items
               /\ user_input' = trim(line)
               /\ current_directory' = result.current_directory
               /\ IF result.action = "FileSelected"
                  THEN /\ selection' = [kind |-> "file",
                                        file |-> result.csv_file_info]
                       /\ pc' = "returned"
                  ELSE IF result.action = "QuitSelection"
                  THEN /\ selection' = [kind |-> "quit"]
                       /\ pc' = "returned"
                  ELSE /\ selection' = [kind |-> "browsing"]
                       /\ pc' = "browsing"
    /\ UNCHANGED <<analysis_vars, display_vars, reader_vars>>

NextSelection == \E line \in UserInputs : BrowseStep(line)

SpecSelection == InitSelection /\ [][NextSelection]_vars

----------------------------------------------------------------------------
(* Properties of the structural scan *)

\* the stage was called in the current run and returned Ok
Completed(stage) ==
    \E i \in 1..Len(stage_log) :
        stage_log[i] = stage /\ ~(pc = "failed" /\ i = Len(stage_log))

\* the structural scan of the current run has returned Ok
ScanDone == Completed("structure")

IsBlank(line) == trim(line) = <<>>

\* C1: for a file made of a header line followed by N non-blank data lines
\* the structural scan reports data_row_count = N.  The header line is one
\* that the scan itself judged to be a header.
C1_HeaderPlusRowsCounted ==
    (/\ ScanDone
     /\ has_header_row
     /\ \A i \in 1..Len(file) : ~IsBlank(file[i]))
    => total_data_row_count = Len(file) - 1

\* the file without the blank lines that follow its second line
WithoutBlankLinesAfterSecond(f) ==
    IF Len(f) <= 2 THEN f
    ELSE SubSeq(f, 1, 2) \o SelectSeq(SubSeq(f, 3, Len(f)), LAMBDA l : ~IsBlank(l))

\* C2: total_data_row_count counts only non-blank lines: it is the count of
\* the same file with the blank lines after the second line taken out.
C2_BlankLinesNotCounted ==
    ScanDone =>
        total_data_row_count =
            analyze_csv_basic_structure(WithoutBlankLinesAfterSecond(file)).data_row_count

\* the number of comma-separated pieces of a line that are an integer or a
\* floating-point number
NumericFieldCount(line) ==
    LET pieces == split_comma(line)
    IN Cardinality({i \in 1..Len(pieces) :
                       ParsesI64(trim(pieces[i])) \/ ParsesF64(trim(pieces[i]))})

\* C3: has_header is (numeric fields of line 1 < numeric fields of line 2),
\* and false for a one-line file; so a line without numeric fields followed
\* by one with a numeric field is a header, two lines with equally many
\* numeric fields are not.
C3_HeaderHeuristic ==
    ScanDone =>
        /\ Len(file) = 1 => ~has_header_row
        /\ Len(file) >= 2 =>
              /\ has_header_row =
                    (NumericFieldCount(file[1]) < NumericFieldCount(file[2]))
              /\ (NumericFieldCount(file[1]) = 0 /\ NumericFieldCount(file[2]) >= 1)
                    => has_header_row
              /\ NumericFieldCount(file[1]) = NumericFieldCount(file[2])
                    => ~has_header_row

C3_Witness ==
    /\ ScanDone
    /\ Len(file) >= 2
    /\ NumericFieldCount(file[1]) = 0
    /\ NumericFieldCount(file[2]) >= 1
    /\ has_header_row

----------------------------------------------------------------------------
(* Properties of the type sampler *)

\* the sampling pass of the current run has returned Ok
TypesDone == Completed("types")

\* the values of the first column in the rows the sampling pass reads
SampledFirstColumn ==
    LET data == DataLines(file, has_header_row)
    IN ColumnContributions(
           SubSeq(data, 1, Min(CSV_SAMPLE_ROWS_FOR_TYPE_DETECTION, Len(data))), 0)

IntegerValues(values) == SelectSeq(values, LAMBDA v : ParsesI64(v))

ArbitraryStrings(values) ==
    SelectSeq(values, LAMBDA v : v # <<>> /\ ~ParsesI64(v) /\ ~ParsesF64(v))

\* C4: a column with 10 sampled values, 7 integers and 3 arbitrary strings
\* in any row order, is classified Integer; with only 6 integers of 10 it
\* is classified String.
C4_SeventyPercentOfTenSamples ==
    (TypesDone /\ Len(SampledFirstColumn) = 10
       /\ Len(IntegerValues(SampledFirstColumn))
             + Len(ArbitraryStrings(SampledFirstColumn)) = 10)
    => /\ Len(IntegerValues(SampledFirstColumn)) = 7
             => column_information_list[1].detected_data_type = "Integer"
       /\ Len(IntegerValues(SampledFirstColumn)) = 6
             => column_information_list[1].detected_data_type = "String"

----------------------------------------------------------------------------
(* Properties of the analysis run *)

IsPrefix(p, q) == Len(p) <= Len(q) /\ SubSeq(q, 1, Len(p)) = p

C6_SchemaFullyRegenerated ==
    Completed("metadata") =>
        /\ metadata_file.exists
        /\ metadata_file.total_columns = Len(column_information_list)
        /\ Len(metadata_file.sections) = Len(column_information_list)
        /\ \A i \in 1..Len(column_information_list) :
              /\ metadata_file.sections[i].section = i
              /\ metadata_file.sections[i].column_index
                    = column_information_list[i].column_index
              /\ metadata_file.sections[i].name
                    = column_information_list[i].column_name
              /\ metadata_file.sections[i].data_type
                    = to_toml_string(column_information_list[i].detected_data_type)
              /\ metadata_file.sections[i].non_empty_values
                    = column_information_list[i].non_empty_value_count
              /\ metadata_file.sections[i].empty_values
                    = column_information_list[i].empty_value_count
        /\ LET s == analyze_csv_basic_structure(file)
           IN metadata_file = MetadataContent(
                  analyze_csv_column_types_and_content(
                      file, s.has_header_row, s.column_count).column_info_list)

\* a run has overwritten the document of an earlier run on a wider file
C6_Witness ==
    /\ pc = "done"
    /\ metadata_at_start.exists
    /\ metadata_at_start.total_columns > metadata_file.total_columns
    /\ metadata_file.total_columns = Len(column_information_list)

\* C7: a run on an empty file fails in the structural scan with the
\* CsvProcessingError of the scan (or with the I/O error of a failed open);
\* no sampling, no statistics and no schema write happen.
C7_EmptyFileFailsInScan ==
    (file = <<>> /\ stage_log # <<>>) =>
        /\ pc = "failed"
        /\ stage_log = <<"structure">>
        /\ run_error \in {create_csv_processing_error(1, "none"), FileSystemError}
        /\ column_information_list = <<>>
        /\ enhanced = NoResult
        /\ metadata_file = metadata_at_start

C7_Witness ==
    /\ file = <<>>
    /\ pc = "failed"
    /\ run_error.kind = "CsvProcessingError"
    /\ metadata_file.exists
    /\ metadata_file = metadata_at_start

Last(q) == q[Len(q)]

AnyStage ==
    \/ AnalyzeBasicStructure
    \/ AnalyzeColumnTypes
    \/ CreateOrUpdateMetadataFile
    \/ PerformEnhancedStatisticalAnalysis

----------------------------------------------------------------------------
(* Properties of the numeric statistics *)

NoValueParses(values) ==
    \A i \in 1..Len(values) : ~ParsesF64(trim(values[i]))

\* C9: numeric statistics over values of which none parses as a number fail
\* with a StatisticalAnalysisError (which carries the column name).
C9_NoNumbersIsStatisticalError ==
    (pc = "numerical_done" /\ NoValueParses(column_values)) =>
        /\ ~stats_result.ok
        /\ stats_result.error.kind = "StatisticalAnalysisError"

\* C10: with at least one parseable value the numeric statistics satisfy
\* min <= q1 <= median <= q3 <= max.
C10_QuartilesOrdered ==
    (pc = "numerical_done" /\ ~NoValueParses(column_values)) =>
        /\ stats_result.ok
        /\ FLe(stats_result.min_value, stats_result.q1_value)
        /\ FLe(stats_result.q1_value, stats_result.q2_median_value)
        /\ FLe(stats_result.q2_median_value, stats_result.q3_value)
        /\ FLe(stats_result.q3_value, stats_result.max_value)

\* C11: a column with exactly one parseable number v, beside any number of
\* empty or unparseable values, has min = q1 = median = q3 = max = mean = v
\* and a standard deviation of 0.
C11_SingleValueStatistics ==
    (pc = "numerical_done" /\ Len(ParsedValues(column_values)) = 1) =>
        LET v == ParsedValues(column_values)[1]
        IN /\ stats_result.ok
           /\ stats_result.min_value = v
           /\ stats_result.q1_value = v
           /\ stats_result.q2_median_value = v
           /\ stats_result.q3_value = v
           /\ stats_result.max_value = v
           /\ stats_result.mean_value = v
           /\ stats_result.standard_deviation = Fin(0, 1)

----------------------------------------------------------------------------
(* Properties of the categorical statistics *)

\* the record that the statistics pass made for column "active" of the
\* example file
ActiveColumn == enhanced.columns[3]

\* C12 as stated: on the example file column active is inferred Boolean,
\* classed Categorical, and has unique_value_count = 2, mode_value = "true",
\* mode_pct = 100.0 and missing_pct = 0.0.
C12_ExampleActiveColumn ==
    (pc = "done" /\ file = ExampleFile) =>
        /\ ActiveColumn.basic_info.detected_data_type = "Boolean"
        /\ ActiveColumn.field_type = "Categorical"
        /\ ActiveColumn.statistics.unique_value_count = 2
        /\ ActiveColumn.statistics.mode_value = <<"t", "r", "u", "e">>
        /\ ActiveColumn.statistics.mode_percentage = Fin(100, 1)
        /\ ActiveColumn.statistics.missing_percentage = Fin(0, 1)

\* C12, amended: the same with mode_pct = 2/3 of 100 (66.7): "true" is 2 of
\* the 3 non-empty values true, false, true of the column.
C12_ExampleActiveColumnTwoThirds ==
    (pc = "done" /\ file = ExampleFile) =>
        /\ ActiveColumn.basic_info.column_name = <<"a", "c", "t", "i", "v", "e">>
        /\ ActiveColumn.basic_info.detected_data_type = "Boolean"
        /\ ActiveColumn.field_type = "Categorical"
        /\ ActiveColumn.statistics.unique_value_count = 2
        /\ ActiveColumn.statistics.mode_value = <<"t", "r", "u", "e">>
        /\ ActiveColumn.statistics.mode_percentage = Fin(200, 3)
        /\ ActiveColumn.statistics.missing_percentage = Fin(0, 1)

C12_Witness ==
    /\ pc = "done"
    /\ file = ExampleFile
    /\ Len(enhanced.columns) = 3
    /\ ActiveColumn.statistics.value_frequencies[1].count = 2
    /\ ActiveColumn.statistics.value_frequencies[2].count = 1

RECURSIVE SumOfCounts(_)
SumOfCounts(entries) ==
    IF entries = <<>> THEN 0
    ELSE Head(entries).count + SumOfCounts(Tail(entries))

\* the values the statistics pass collected for the column of a record
CollectedValues(column) ==
    collect_all_column_values(file, has_header_row, total_column_count)
        [column.basic_info.column_index + 1]

\* C13: for every categorical column of every file, files with rows of
\* fewer fields than column_count included, the sum of the frequency counts
\* plus the number of missing (empty) values is the number of non-header
\* rows the statistics pass visited.
C13_CategoricalCompleteness ==
    pc = "done" =>
        \A i \in 1..Len(enhanced.columns) :
            enhanced.columns[i].field_type = "Categorical" =>
                SumOfCounts(enhanced.columns[i].statistics.value_frequencies)
                    + CountOf(CollectedValues(enhanced.columns[i]), <<>>)
                = Len(DataLines(file, has_header_row))

\* C14: for every list of values given to the categorical statistics the
\* counts of value_frequencies plus the number of empty values add up to
\* the length of the list, and the percentage of every entry is its count
\* relative to the number of non-empty values, not to the list length.
C14_CountsAndPercentages ==
    pc = "categorical_done" =>
        LET empty_count == Cardinality({i \in 1..Len(column_values) :
                                           trim(column_values[i]) = <<>>})
            frequencies == stats_result.value_frequencies
        IN /\ stats_result.ok
           /\ SumOfCounts(frequencies) + empty_count = Len(column_values)
           /\ \A i \in 1..Len(frequencies) :
                 /\ frequencies[i].count =
                       Cardinality({j \in 1..Len(column_values) :
                                       trim(column_values[j]) = frequencies[i].value})
                 /\ frequencies[i].percentage =
                       Fin(frequencies[i].count * 100,
                           Len(column_values) - empty_count)

\* a list of two distinct values and a blank one: each value is half of
\* the non-empty values and a third of the list
C14_Witness ==
    /\ pc = "categorical_done"
    /\ Len(column_values) = 3
    /\ Len(stats_result.value_frequencies) = 2
    /\ stats_result.value_frequencies[1].percentage = Fin(50, 1)
    /\ stats_result.value_frequencies[2].percentage = Fin(50, 1)
    /\ \E i \in 1..Len(column_values) : column_values[i] = <<" ">>

\* C15: value_frequencies holds one entry per distinct trimmed non-empty
\* value and unique_value_count is its length; the entries are in
\* non-increasing order of count; mode_value is the value of the first
\* entry, a value of maximal count, and is none exactly when the column has
\* no non-empty value.
C15_FrequenciesSortedModeFirst ==
    pc = "categorical_done" =>
        LET frequencies == stats_result.value_frequencies
            distinct == {trim(column_values[i]) : i \in 1..Len(column_values)}
                            \ {<<>>}
        IN /\ {frequencies[i].value : i \in 1..Len(frequencies)} = distinct
           /\ Len(frequencies) = Cardinality(distinct)
           /\ stats_result.unique_value_count = Len(frequencies)
           /\ \A i, j \in 1..Len(frequencies) :
                 i < j => frequencies[i].count >= frequencies[j].count
           /\ (stats_result.mode_value = "none") <=> (distinct = {})
           /\ distinct # {} =>
                 /\ stats_result.mode_value = frequencies[1].value
                 /\ stats_result.mode_percentage = frequencies[1].percentage
                 /\ \A v \in distinct :
                       Cardinality({i \in 1..Len(column_values) :
                                       trim(column_values[i]) = v})
                          <= frequencies[1].count

\* the most frequent value was met last and is reported first
C15_Witness ==
    /\ pc = "categorical_done"
    /\ Len(column_values) = 3
    /\ trim(column_values[1]) # <<>>
    /\ column_values[2] = column_values[3]
    /\ column_values[1] # column_values[2]
    /\ stats_result.mode_value = column_values[3]
    /\ stats_result.value_frequencies[1].count = 2
    /\ stats_result.value_frequencies[2].count = 1

----------------------------------------------------------------------------
(* Properties of the field split of the sampling and statistics passes *)

\* the data rows the sampling pass reads
SampledRows ==
    LET data == DataLines(file, has_header_row)
    IN SubSeq(data, 1, Min(CSV_SAMPLE_ROWS_FOR_TYPE_DETECTION, Len(data)))

\* the trimmed c-th fields of the rows that have one under the quote-toggle
\* rule of the Line Tokenizer
TokenizedFieldsAt(rows, c) ==
    LET having == SelectSeq(rows, LAMBDA l : Len(parse_csv_line(l)) >= c)
    IN [r \in 1..Len(having) |-> trim(parse_csv_line(having[r])[c])]

\* the trimmed c-th pieces of the rows that have one when a row is cut at
\* every comma
SplitPiecesAt(rows, c) ==
    LET having == SelectSeq(rows, LAMBDA l : Len(split_comma(l)) >= c)
    IN [r \in 1..Len(having) |-> trim(split_comma(having[r])[c])]

Range(q) == {q[i] : i \in 1..Len(q)}

FirstNonEmpty(values, n) ==
    LET non_empty == SelectSeq(values, LAMBDA v : v # <<>>)
    IN SubSeq(non_empty, 1, Min(n, Len(non_empty)))

FrequencyValues(column) ==
    {column.statistics.value_frequencies[i].value :
        i \in 1..Len(column.statistics.value_frequencies)}

\* C16 as stated: the sampling pass and the statistics pass split a data
\* line with the quote-toggle rule, so that a comma between two double
\* quotes does not end a field: every column holds the fields that rule
\* gives it, and a,"x,y",b gives one field to each of three columns.
C16_QuoteToggleSplit ==
    /\ TypesDone =>
          \A c \in 1..Len(column_information_list) :
              /\ column_information_list[c].sample_values =
                    FirstNonEmpty(TokenizedFieldsAt(SampledRows, c), MAX_SAMPLE_VALUES)
              /\ column_information_list[c].non_empty_value_count
                    + column_information_list[c].empty_value_count
                 = Len(TokenizedFieldsAt(SampledRows, c))
    /\ pc = "done" =>
          \A c \in 1..Len(enhanced.columns) :
              enhanced.columns[c].field_type = "Categorical" =>
                  FrequencyValues(enhanced.columns[c]) =
                      {v \in Range(TokenizedFieldsAt(
                                 DataLines(file, has_header_row), c)) : v # <<>>}

\* C16, amended: both passes cut a data line at every comma, quoted or
\* not: every column holds the trimmed pieces of that cut, and a,"x,y",b
\* gives the four pieces a, "x, y" and b, one to each of four columns.
C16_PlainCommaSplit ==
    /\ TypesDone =>
          /\ \A c \in 1..Len(column_information_list) :
                /\ column_information_list[c].sample_values =
                      FirstNonEmpty(SplitPiecesAt(SampledRows, c), MAX_SAMPLE_VALUES)
                /\ column_information_list[c].non_empty_value_count
                      + column_information_list[c].empty_value_count
                   = Len(SplitPiecesAt(SampledRows, c))
          /\ file = <<QuotedRow>> =>
                [c \in 1..Len(column_information_list) |->
                    column_information_list[c].sample_values]
                = << <<<<"a">>>>, <<<<"\"", "x">>>>, <<<<"y", "\"">>>>, <<<<"b">>>> >>
    /\ pc = "done" =>
          \A c \in 1..Len(enhanced.columns) :
              enhanced.columns[c].field_type = "Categorical" =>
                  FrequencyValues(enhanced.columns[c]) =
                      {v \in Range(SplitPiecesAt(
                                 DataLines(file, has_header_row), c)) : v # <<>>}

C16_Witness ==
    /\ pc = "done"
    /\ file = <<QuotedRow>>
    /\ Len(enhanced.columns) = 4
    /\ FrequencyValues(enhanced.columns[2]) = {<<"\"", "x">>}

----------------------------------------------------------------------------
(* Properties of the Line Tokenizer *)

HasQuote(line) == \E i \in 1..Len(line) : line[i] = "\""

\* C17: for every non-empty line without a double-quote character
\* parse_csv_line returns the fields that cutting the line at every comma
\* and trimming each piece gives.
C17_TokenizerIsSplitAndTrim ==
    (pc = "tokenized" /\ input_line # <<>> /\ ~HasQuote(input_line)) =>
        parsed_fields =
            [i \in 1..Len(split_comma(input_line)) |->
                trim(split_comma(input_line)[i])]

\* a line of two fields, one of which is trimmed
C17_Witness ==
    /\ pc = "tokenized"
    /\ input_line = <<" ", ",", "a">>
    /\ parsed_fields = << <<>>, <<"a">> >>

QuotesBefore(line, i) == Cardinality({j \in 1..(i - 1) : line[j] = "\""})

\* the commas of the line that an even number of quote characters precede
FieldEndingCommas(line) ==
    {i \in 1..Len(line) : line[i] = "," /\ QuotesBefore(line, i) % 2 = 0}

CommaCount(s) == Cardinality({i \in 1..Len(s) : s[i] = ","})

\* C18: parse_csv_line returns exactly 1 + k fields, k the number of commas
\* preceded by an even number of quote characters: one empty field for an
\* empty line, a trailing empty field after a trailing comma, and for a line
\* with an unbalanced quote no error but a final field that holds every
\* comma after the unmatched quote.
C18_FieldCount ==
    pc = "tokenized" =>
        /\ Len(parsed_fields) = 1 + Cardinality(FieldEndingCommas(input_line))
        /\ input_line = <<>> => parsed_fields = << <<>> >>
        /\ Len(input_line) \in FieldEndingCommas(input_line)
              => Last(parsed_fields) = <<>>
        /\ QuotesBefore(input_line, Len(input_line) + 1) % 2 = 1 =>
              LET unmatched == CHOOSE i \in 1..Len(input_line) :
                                  /\ input_line[i] = "\""
                                  /\ \A j \in (i + 1)..Len(input_line) :
                                        input_line[j] # "\""
              IN CommaCount(Last(parsed_fields))
                    >= CommaCount(SubSeq(input_line, unmatched + 1, Len(input_line)))

\* an unmatched quote followed by two commas: one field, holding both
C18_Witness ==
    /\ pc = "tokenized"
    /\ input_line = <<"\"", ",", ",">>
    /\ parsed_fields = << <<",", ",">> >>

----------------------------------------------------------------------------
(* Properties of the counters of the column profiles *)

\* C19: after the sampling pass every column profile has non_empty_count +
\* empty_count = the number of data rows sampled, min(10, lines after the
\* header), for every file, files with rows shorter than column_count
\* included.
C19_ProfileCountsCoverSampledRows ==
    TypesDone =>
        \A c \in 1..Len(column_information_list) :
            column_information_list[c].non_empty_value_count
                + column_information_list[c].empty_value_count
            = Min(CSV_SAMPLE_ROWS_FOR_TYPE_DETECTION,
                  Len(DataLines(file, has_header_row)))

\* C20: after the statistics pass the column profile attached to every
\* statistics record has non_empty_count + empty_count = the number of all
\* data rows of the file, not only of the sampled prefix, files with more
\* than 10 data rows included.
C20_ProfileCountsCoverAllRows ==
    pc = "done" =>
        \A c \in 1..Len(enhanced.columns) :
            enhanced.columns[c].basic_info.non_empty_value_count
                + enhanced.columns[c].basic_info.empty_value_count
            = Len(DataLines(file, has_header_row))

----------------------------------------------------------------------------
(* Properties of the schema document *)

TypeTags == {"boolean", "integer", "float", "string"}

\* C21: the schema document written for a run has total_columns equal to
\* the structural column count and exactly one section per column: the
\* section of 0-based column i is keyed column_<i+1>, records column_index
\* = i, a data_type among the four lowercase tags and that column's
\* non-empty and empty counts; the keys are pairwise distinct and cover
\* 1..total_columns.
C21_SchemaSections ==
    Completed("metadata") =>
        /\ metadata_file.exists
        /\ metadata_file.total_columns = total_column_count
        /\ Len(metadata_file.sections) = total_column_count
        /\ {metadata_file.sections[k].section :
               k \in 1..Len(metadata_file.sections)} = 1..total_column_count
        /\ \A k \in 1..Len(metadata_file.sections) :
              LET section == metadata_file.sections[k]
                  i == section.column_index
              IN /\ i \in 0..(total_column_count - 1)
                 /\ section.section = i + 1
                 /\ section.data_type \in TypeTags
                 /\ column_information_list[i + 1].column_index = i
                 /\ section.non_empty_values
                       = column_information_list[i + 1].non_empty_value_count
                 /\ section.empty_values
                       = column_information_list[i + 1].empty_value_count

\* a document of two sections whose columns differ in their counts
C21_Witness ==
    /\ Completed("metadata")
    /\ metadata_file.total_columns = 2
    /\ metadata_file.sections[1].section = 1
    /\ metadata_file.sections[2].section = 2
    /\ metadata_file.sections[2].column_index = 1
    /\ metadata_file.sections[1].non_empty_values
          # metadata_file.sections[2].non_empty_values

----------------------------------------------------------------------------
(* Properties of the error display *)

Contains(text, part) ==
    \E i \in 1..(Len(text) - Len(part) + 1) :
        SubSeq(text, i, i + Len(part) - 1) = part

\* C22: the displayed text of a CsvProcessingError contains its operation
\* description, contains the line number (as " at line <n>") exactly when
\* a line number is present, and contains the column identifier (as
\* " in column '<id>'") exactly when a column identifier is present.
C22_DisplayedErrorText ==
    pc = "displayed" =>
        /\ Contains(displayed_text, error_value.csv_operation_description)
        /\ IF error_value.csv_line_number # None
           THEN Contains(displayed_text,
                         <<" ", "a", "t", " ", "l", "i", "n", "e", " ">>
                            \o ToDecimal(error_value.csv_line_number[1]))
           ELSE ~Contains(displayed_text, <<" ", "a", "t", " ", "l", "i", "n", "e">>)
        /\ IF error_value.csv_column_identifier # None
           THEN Contains(displayed_text,
                         <<"'">> \o error_value.csv_column_identifier[1] \o <<"'">>)
           ELSE ~Contains(displayed_text,
                          <<" ", "i", "n", " ", "c", "o", "l", "u", "m", "n", " ", "'">>)

\* the error of the display test: a two-digit line number and a column name
C22_Witness ==
    /\ pc = "displayed"
    /\ error_value.csv_line_number = Some(12)
    /\ error_value.csv_column_identifier # None
    /\ Len(error_value.csv_column_identifier[1]) > 1
    /\ Contains(displayed_text, <<"1", "2">>)
    /\ Contains(displayed_text, error_value.csv_column_identifier[1])

----------------------------------------------------------------------------
(* Properties of the type vote *)

BooleanLiterals ==
    { <<"t", "r", "u", "e">>, <<"f", "a", "l", "s", "e">>, <<"y", "e", "s">>,
      <<"n", "o">>, <<"1">>, <<"0">>, <<"t">>, <<"f">>, <<"y">>, <<"n">> }

IsBooleanLiteral(value) == to_lowercase(trim(value)) \in BooleanLiterals

BooleanVotes(values) ==
    Cardinality({i \in 1..Len(values) : IsBooleanLiteral(values[i])})

IntegerVotes(values) ==
    Cardinality({i \in 1..Len(values) :
                    /\ ~IsBooleanLiteral(values[i])
                    /\ ParsesI64(to_lowercase(trim(values[i])))})

FloatVotes(values) ==
    Cardinality({i \in 1..Len(values) :
                    /\ ~IsBooleanLiteral(values[i])
                    /\ ~ParsesI64(to_lowercase(trim(values[i])))
                    /\ ParsesF64(to_lowercase(trim(values[i])))})

----------------------------------------------------------------------------
(* Properties of the percentiles *)

\* the parsed values of the column in ascending order
SortedNumbers == SortAscending(ParsedValues(column_values))

\* the value at position (p/100)*(n-1) of the sorted numbers: the element
\* there when the position is whole, else the elements at its floor and
\* ceiling weighted by the fractional part
InterpolatedAt(p) ==
    LET n == Len(SortedNumbers)
        whole == (p * (n - 1)) \div 100
        hundredths == (p * (n - 1)) % 100
    IN IF hundredths = 0
       THEN SortedNumbers[whole + 1]
       ELSE FAdd(FMul(SortedNumbers[whole + 1], Fin(100 - hundredths, 100)),
                 FMul(SortedNumbers[whole + 2], Fin(hundredths, 100)))

\* C24: for n >= 1 sorted numbers and p in {25, 50, 75} calculate_percentile
\* returns the element at position (p/100)*(n-1) when that position is
\* whole and otherwise the linear interpolation of its two neighbours by
\* the fractional part; the median of two values is their mean, 27.5 for
\* 25 and 30.
C24_PercentileInterpolation ==
    (pc = "numerical_done" /\ ParsedValues(column_values) # <<>>) =>
        /\ stats_result.q1_value = InterpolatedAt(25)
        /\ stats_result.q2_median_value = InterpolatedAt(50)
        /\ stats_result.q3_value = InterpolatedAt(75)
        /\ Len(SortedNumbers) = 2 =>
              stats_result.q2_median_value =
                  FDivN(FAdd(SortedNumbers[1], SortedNumbers[2]), 2)
        /\ SortedNumbers = <<Fin(25, 1), Fin(30, 1)>> =>
              stats_result.q2_median_value = Fin(55, 2)

\* the ages of the example file: 30, 25 and a missing one
C24_Witness ==
    /\ pc = "numerical_done"
    /\ column_values = << <<"3", "0">>, <<"2", "5">>, <<>> >>
    /\ stats_result.min_value = Fin(25, 1)
    /\ stats_result.q2_median_value = Fin(55, 2)
    /\ stats_result.max_value = Fin(30, 1)

----------------------------------------------------------------------------
(* Properties that relate the sampling pass and the statistics pass *)

\* the values the statistics pass collects for the 1-based column c
ValuesOfColumn(c) ==
    collect_all_column_values(file, has_header_row, total_column_count)[c]

\* C26: in a run the numeric statistics never fail with the
\* no-valid-values error: every column that the sampling pass typed
\* Integer or Float has a value that parses as a number among the values
\* the statistics pass collects for it.
C26_NumericColumnsHaveNumbers ==
    /\ (pc = "failed" /\ Last(stage_log) = "statistics")
          => run_error = FileSystemError
    /\ TypesDone =>
          \A c \in 1..Len(column_information_list) :
              column_information_list[c].detected_data_type \in {"Integer", "Float"}
              => \E i \in 1..Len(ValuesOfColumn(c)) :
                     ParsesF64(trim(ValuesOfColumn(c)[i]))

\* a finished run with a numeric column that also holds text
C26_Witness ==
    /\ pc = "done"
    /\ \E c \in 1..Len(enhanced.columns) :
          /\ enhanced.columns[c].field_type = "Continuous"
          /\ enhanced.columns[c].statistics.ok
          /\ \E i \in 1..Len(ValuesOfColumn(c)) :
                 /\ trim(ValuesOfColumn(c)[i]) # <<>>
                 /\ ~ParsesF64(trim(ValuesOfColumn(c)[i]))

\* the file without the blank lines among its data lines
WithoutBlankDataLines ==
    (IF has_header_row /\ file # <<>> THEN <<Head(file)>> ELSE <<>>)
        \o SelectSeq(DataLines(file, has_header_row), LAMBDA l : ~IsBlank(l))

\* C27: a blank line among the data lines adds no value and no empty or
\* missing count to any column in the sampling pass and in the statistics
\* pass: the column profiles and the missing percentages are those of the
\* file without its blank data lines (the first line is not blank).
C27_BlankLinesAddNothing ==
    (file # <<>> /\ ~IsBlank(file[1])) =>
    /\ TypesDone =>
          column_information_list =
              analyze_csv_column_types_and_content(
                  WithoutBlankDataLines, has_header_row,
                  total_column_count).column_info_list
    /\ pc = "done" =>
          \A c \in 1..Len(enhanced.columns) :
              LET values == collect_all_column_values(
                                WithoutBlankDataLines, has_header_row,
                                total_column_count)[c]
              IN enhanced.columns[c].statistics.missing_percentage
                    = Percent(CountOf(values, <<>>), Len(values))

\* C28: the streaming describe_csv and display_csv_row agree with the
\* in-memory ones on every file: the same column count and number of data
\* rows, the same row for every row index, and an error for the same inputs
\* (empty files and files with blank lines included).
C28_StreamingAgreesWithInMemory ==
    /\ (described # NotCalled /\ described_micro # NotCalled) =>
          /\ described.ok = described_micro.ok
          /\ described.ok =>
                /\ described.columns = described_micro.columns
                /\ described.rows = described_micro.rows
    /\ (displayed_row # NotCalled /\ displayed_row_micro # NotCalled) =>
          /\ displayed_row.ok = displayed_row_micro.ok
          /\ displayed_row.ok =>
                displayed_row.row_data = displayed_row_micro.row_data

\* C29: the in-memory display_csv_row returns an InvalidInput error for
\* every row_index at or past the number of data rows, a file with a header
\* and no data rows included, and no unsigned subtraction goes below zero
\* while the error is built.
C29_RowIndexErrorWithoutOverflow ==
    (displayed_row # NotCalled /\ row_index >= Len(read_csv_file(file).rows)) =>
        /\ displayed_row.kind = "InvalidInput"
        /\ ~displayed_row.overflow

\* a name with the .csv or .tsv ending, in either case
HasCsvName(item_name) ==
    \/ ends_with(to_lowercase(item_name), <<".", "c", "s", "v">>)
    \/ ends_with(to_lowercase(item_name), <<".", "t", "s", "v">>)

\* the input just processed is a number n with 1 <= n <= number of the items
\* just listed
SelectsListedItem ==
    /\ ParsesUsize(user_input')
    /\ UsizeValue(user_input') >= 1
    /\ UsizeValue(user_input') <= Len(directory_items')

SelectedItem == directory_items'[UsizeValue(user_input')]

\* C30: in the file-selection loop a file is returned only for an input that
\* is a number n with 1 <= n <= number of listed items whose item is not a
\* directory and has a .csv or .tsv name; the current directory changes only
\* on b/back (to the parent) or on selecting a directory item (to that
\* directory); q/quit ends the loop with no file.
C30_FileSelectionLoop ==
    [][ /\ selection'.kind = "file" =>
              /\ SelectsListedItem
              /\ ~SelectedItem.is_directory
              /\ HasCsvName(SelectedItem.item_name)
              /\ selection'.file.absolute_file_path =
                     SelectedItem.absolute_path
        /\ current_directory' # current_directory =>
              \/ /\ user_input' \in {<<"b">>, <<"b", "a", "c", "k">>}
                 /\ Some(current_directory') = parent(current_directory)
              \/ /\ SelectsListedItem
                 /\ SelectedItem.is_directory
                 /\ current_directory' = SelectedItem.absolute_path
        /\ (/\ pc = "browsing"
            /\ CanReadDirectory(DirectoryTree, current_directory)
            /\ user_input' \in {<<"q">>, <<"q", "u", "i", "t">>}) =>
              /\ pc' = "returned"
              /\ selection'.kind = "quit"
              /\ current_directory' = current_directory ]_vars

\* a file below "data" was returned after the directory was entered and the
\* file chosen by its number
C30_Witness ==
    /\ pc = "returned"
    /\ selection.kind = "file"
    /\ Len(selection.file.absolute_file_path) = 2
    /\ ParsesUsize(user_input)

====
